---- MODULE Spec2Model ----
(***************************************************************************)
(* Model of thermo/phases.py: the Phase property-derivation engine.        *)
(*                                                                         *)
(* Phase snapshots live in a heap `phases`; every property accessor is a   *)
(* function from a snapshot to (snapshot with updated memo fields, value,  *)
(* error, number of correlation-object calls).  Floating-point quantities  *)
(* are modelled by integers; the external collaborators (correlation       *)
(* objects, equation-of-state mixture, excess-Gibbs model) are modelled by *)
(* fixed integer tables, so that every identity of the derivative algebra  *)
(* is checked as an exact equality.                                        *)
(*                                                                         *)
(* Source text is modelled as sequences of one-character strings so that   *)
(* build_EOSLiquid's str.replace chain is computed, not assumed.           *)
(***************************************************************************)
EXTENDS Integers, Sequences, FiniteSets, TLC

----------------------------------------------------------------------------
(* Source text of EOSGas, build_EOSLiquid (phases.py 1112-1469)            *)

\* The branch-selecting expressions of class EOSGas, method by method:
\* <<expression tried first, expression of the except clause>>.
EOSGas_source ==
  [to_TP_zs |-> << <<"e", "o", "s", "_", "m", "i", "x", ".", "t", "o", "_", "T", "P", "_", "z", "s", "_", "f", "a", "s", "t", "(", "o", "n", "l", "y", "_", "g", "=", "T", "r", "u", "e", ")">>,
        <<"e", "o", "s", "_", "c", "l", "a", "s", "s", "(", "T", "=", "T", ",", " ", "P", "=", "P", ",", " ", "z", "s", "=", "z", "s", ")">> >>,
   lnphis |-> << <<"e", "o", "s", "_", "m", "i", "x", ".", "Z", "_", "g">>,
        <<"e", "o", "s", "_", "m", "i", "x", ".", "Z", "_", "l">> >>,
   dlnphis_dT |-> << <<"e", "o", "s", "_", "m", "i", "x", ".", "d", "l", "n", "p", "h", "i", "s", "_", "d", "T", "(", "'", "g", "'", ")">>,
        <<"e", "o", "s", "_", "m", "i", "x", ".", "d", "l", "n", "p", "h", "i", "s", "_", "d", "T", "(", "'", "l", "'", ")">> >>,
   dlnphis_dP |-> << <<"e", "o", "s", "_", "m", "i", "x", ".", "d", "l", "n", "p", "h", "i", "s", "_", "d", "P", "(", "'", "g", "'", ")">>,
        <<"e", "o", "s", "_", "m", "i", "x", ".", "d", "l", "n", "p", "h", "i", "s", "_", "d", "P", "(", "'", "l", "'", ")">> >>,
   gammas |-> << <<"i", ".", "p", "h", "i", "_", "g">>,
        <<"i", ".", "p", "h", "i", "_", "l">> >>,
   H_dep |-> << <<"e", "o", "s", "_", "m", "i", "x", ".", "H", "_", "d", "e", "p", "_", "g">>,
        <<"e", "o", "s", "_", "m", "i", "x", ".", "H", "_", "d", "e", "p", "_", "l">> >>,
   S_dep |-> << <<"e", "o", "s", "_", "m", "i", "x", ".", "S", "_", "d", "e", "p", "_", "g">>,
        <<"e", "o", "s", "_", "m", "i", "x", ".", "S", "_", "d", "e", "p", "_", "l">> >>,
   Cp_dep |-> << <<"e", "o", "s", "_", "m", "i", "x", ".", "C", "p", "_", "d", "e", "p", "_", "g">>,
        <<"e", "o", "s", "_", "m", "i", "x", ".", "C", "p", "_", "d", "e", "p", "_", "l">> >>,
   V |-> << <<"e", "o", "s", "_", "m", "i", "x", ".", "V", "_", "g">>,
        <<"e", "o", "s", "_", "m", "i", "x", ".", "V", "_", "l">> >>,
   dP_dT |-> << <<"e", "o", "s", "_", "m", "i", "x", ".", "d", "P", "_", "d", "T", "_", "g">>,
        <<"e", "o", "s", "_", "m", "i", "x", ".", "d", "P", "_", "d", "T", "_", "l">> >>,
   dP_dV |-> << <<"e", "o", "s", "_", "m", "i", "x", ".", "d", "P", "_", "d", "V", "_", "g">>,
        <<"e", "o", "s", "_", "m", "i", "x", ".", "d", "P", "_", "d", "V", "_", "l">> >>,
   d2P_dT2 |-> << <<"e", "o", "s", "_", "m", "i", "x", ".", "d", "2", "P", "_", "d", "T", "2", "_", "g">>,
        <<"e", "o", "s", "_", "m", "i", "x", ".", "d", "2", "P", "_", "d", "T", "2", "_", "l">> >>,
   d2P_dV2 |-> << <<"e", "o", "s", "_", "m", "i", "x", ".", "d", "2", "P", "_", "d", "V", "2", "_", "g">>,
        <<"e", "o", "s", "_", "m", "i", "x", ".", "d", "2", "P", "_", "d", "V", "2", "_", "l">> >>,
   d2P_dTdV |-> << <<"e", "o", "s", "_", "m", "i", "x", ".", "d", "2", "P", "_", "d", "T", "d", "V", "_", "g">>,
        <<"e", "o", "s", "_", "m", "i", "x", ".", "d", "2", "P", "_", "d", "T", "d", "V", "_", "l">> >>,
   d2T_dV2 |-> << <<"e", "o", "s", "_", "m", "i", "x", ".", "d", "2", "T", "_", "d", "V", "2", "_", "g">>,
        <<"e", "o", "s", "_", "m", "i", "x", ".", "d", "2", "T", "_", "d", "V", "2", "_", "l">> >>,
   d2V_dT2 |-> << <<"e", "o", "s", "_", "m", "i", "x", ".", "d", "2", "V", "_", "d", "T", "2", "_", "g">>,
        <<"e", "o", "s", "_", "m", "i", "x", ".", "d", "2", "V", "_", "d", "T", "2", "_", "l">> >>,
   dH_dP |-> << <<"e", "o", "s", "_", "m", "i", "x", ".", "d", "H", "_", "d", "e", "p", "_", "d", "P", "_", "g">>,
        <<"e", "o", "s", "_", "m", "i", "x", ".", "d", "H", "_", "d", "e", "p", "_", "d", "P", "_", "l">> >>,
   dH_dzs |-> << <<"e", "o", "s", "_", "m", "i", "x", ".", "d", "H", "_", "d", "e", "p", "_", "d", "z", "s", "(", "e", "o", "s", "_", "m", "i", "x", ".", "Z", "_", "g", ")">>,
        <<"e", "o", "s", "_", "m", "i", "x", ".", "d", "H", "_", "d", "e", "p", "_", "d", "z", "s", "(", "e", "o", "s", "_", "m", "i", "x", ".", "Z", "_", "l", ")">> >>,
   dS_dT |-> << <<"e", "o", "s", "_", "m", "i", "x", ".", "d", "S", "_", "d", "e", "p", "_", "d", "T", "_", "g">>,
        <<"e", "o", "s", "_", "m", "i", "x", ".", "d", "S", "_", "d", "e", "p", "_", "d", "T", "_", "l">> >>,
   dS_dP |-> << <<"e", "o", "s", "_", "m", "i", "x", ".", "d", "S", "_", "d", "e", "p", "_", "d", "P", "_", "g">>,
        <<"e", "o", "s", "_", "m", "i", "x", ".", "d", "S", "_", "d", "e", "p", "_", "d", "P", "_", "l">> >>,
   dS_dzs |-> << <<"e", "o", "s", "_", "m", "i", "x", ".", "d", "S", "_", "d", "e", "p", "_", "d", "z", "s", "(", "e", "o", "s", "_", "m", "i", "x", ".", "Z", "_", "g", ")">>,
        <<"e", "o", "s", "_", "m", "i", "x", ".", "d", "S", "_", "d", "e", "p", "_", "d", "z", "s", "(", "e", "o", "s", "_", "m", "i", "x", ".", "Z", "_", "l", ")">> >>,
   mechanical_critical_point |-> << <<"n", "e", "w", ".", "V", "_", "l">>,
        <<"n", "e", "w", ".", "V", "_", "g">> >>,
   H |-> << <<"s", "e", "l", "f", ".", "H", "_", "d", "e", "p", "(", ")">>,
        <<"s", "e", "l", "f", ".", "_", "H">> >>,
   S |-> << <<"s", "e", "l", "f", ".", "S", "_", "d", "e", "p", "(", ")">>,
        <<"s", "e", "l", "f", ".", "_", "S">> >>,
   Cp |-> << <<"s", "e", "l", "f", ".", "C", "p", "_", "d", "e", "p", "(", ")">>,
        <<"s", "e", "l", "f", ".", "C", "p", "i", "g", "s", "_", "p", "u", "r", "e", "(", ")">> >>,
   class_stmt |-> << <<"c", "l", "a", "s", "s", " ", "E", "O", "S", "G", "a", "s", "(", "P", "h", "a", "s", "e", ")", ":">>,
        <<"s", "e", "l", "f", ".", "_", "_", "c", "l", "a", "s", "s", "_", "_">> >> ]

EOSMethods == DOMAIN EOSGas_source

swap_strings ==
  << <<"C", "p", "_", "d", "e", "p">>,
     <<"d", "2", "P", "_", "d", "T", "2">>,
     <<"d", "2", "P", "_", "d", "T", "d", "V">>,
     <<"d", "2", "P", "_", "d", "V", "2">>,
     <<"d", "2", "T", "_", "d", "V", "2">>,
     <<"d", "2", "V", "_", "d", "T", "2">>,
     <<"d", "H", "_", "d", "e", "p", "_", "d", "P">>,
     <<"d", "P", "_", "d", "T">>,
     <<"d", "P", "_", "d", "V">>,
     <<"p", "h", "i">>,
     <<"d", "S", "_", "d", "e", "p", "_", "d", "P">>,
     <<"d", "S", "_", "d", "e", "p", "_", "d", "T">>,
     <<"H", "_", "d", "e", "p">>,
     <<"S", "_", "d", "e", "p">>,
     <<".", "V">>,
     <<".", "Z">> >>
gORIG == <<"g", "O", "R", "I", "G">>
only_g == <<"o", "n", "l", "y", "_", "g">>
only_l == <<"o", "n", "l", "y", "_", "l">>
EOSGasName == <<"E", "O", "S", "G", "a", "s">>
EOSLiquidName == <<"E", "O", "S", "L", "i", "q", "u", "i", "d">>
q_g == <<"'", "g", "'">>
q_l == <<"'", "l", "'">>
q_gORIG == <<"'", "g", "O", "R", "I", "G", "'">>
suffix_g == <<"_", "g">>
suffix_l == <<"_", "l">>


\* str.replace(old, new): leftmost, non-overlapping occurrences.
\* Positions at which pat occurs in s.
Occurrences(s, pat) ==
  {i \in 1..(Len(s) - Len(pat) + 1) : SubSeq(s, i, i + Len(pat) - 1) = pat}

RECURSIVE Replace(_, _, _)
Replace(s, old, new) ==
  LET occ == Occurrences(s, old) IN
  IF occ = {} THEN s
  ELSE LET i == CHOOSE j \in occ : \A k \in occ : j <= k
       IN SubSeq(s, 1, i - 1) \o new
            \o Replace(SubSeq(s, i + Len(old), Len(s)), old, new)

\* One pass of the loop over swap_strings (phases.py 1459-1462).
swap_one(source, s) ==
  LET a == Replace(source, s \o suffix_g, gORIG)
      b == Replace(a, s \o suffix_l, s \o suffix_g)
  IN Replace(b, gORIG, s \o suffix_l)

\* for s in swap_strings: ... (each pass works on the text the previous
\* pass produced; the set binding keeps that text a computed value).
RECURSIVE swap_loop(_, _)
swap_loop(source, k) ==
  IF k > Len(swap_strings) THEN source
  ELSE CHOOSE r \in {swap_loop(v, k + 1) :
                       v \in {swap_one(source, swap_strings[k])}} : TRUE

\* A slip in the rewrite: the quoted root names 'g' / 'l' are not exchanged.
build_EOSLiquid_noquotes(source) ==
  LET s1 == Replace(Replace(source, EOSGasName, EOSLiquidName), only_g, only_l)
  IN CHOOSE r \in {swap_loop(v, 1) : v \in {s1}} : TRUE

build_EOSLiquid(source) ==
  LET s1 == Replace(Replace(source, EOSGasName, EOSLiquidName), only_g, only_l)
      s2 == Replace(s1, q_g, q_gORIG)
      s3 == Replace(s2, q_l, q_g)
      s4 == Replace(s3, q_gORIG, q_l)
  IN CHOOSE r \in {swap_loop(v, 1) : v \in {s4}} : TRUE

Contains(s, pat) == Occurrences(s, pat) # {}

\* Which root of the equation of state an attribute expression reads.
BranchOf(expr) ==
  IF Contains(expr, suffix_g) \/ Contains(expr, q_g) THEN "g"
  ELSE IF Contains(expr, suffix_l) \/ Contains(expr, q_l) THEN "l"
  ELSE "none"

----------------------------------------------------------------------------
(* Bounds of the model and program constants                               *)

N == 2          \* number of components
MaxT == 2       \* temperatures 1..MaxT
MaxP == 2       \* pressures 1..MaxP
MaxZ == 1       \* mole-fraction entries 0..MaxZ
MaxOps == 2     \* operations of one run, construction included

R == 8          \* fluids.constants.R, rounded
T_REF_IG == 1   \* Phase.T_REF_IG, in model units
P_REF_IG == 1   \* Phase.P_REF_IG, in model units

PhaseIds == 1..2
Kinds == {"IdealGas", "EOSGas", "EOSLiquid", "GibbsExcessLiquid", "GibbsExcessSolid"}
EOSKinds == {"EOSGas", "EOSLiquid"}
GEKinds == {"GibbsExcessLiquid", "GibbsExcessSolid"}

VARIABLES
  EOSLiquid_source,  \* text of class EOSLiquid once the module is imported
  imported,          \* the module body has run (exec(build_EOSLiquid()))
  phases,            \* heap of Phase objects: PhaseIds -> object or NoPhase
  new,               \* the module-level global `new` of mechanical_critical_point
  ret,               \* outcome of the last operation
  nops,              \* operations performed so far
  fits,              \* best-fit attributes of the locked HeatCapacityGases objects
  solve              \* mechanical_critical_point calls in progress, one per thread

vars == <<EOSLiquid_source, imported, phases, new, ret, nops, fits, solve>>

----------------------------------------------------------------------------
(* Numeric helpers                                                         *)

RECURSIVE SumTo(_, _)
SumTo(f, n) == IF n = 0 THEN 0 ELSE f[n] + SumTo(f, n - 1)

Min2(a, b) == IF a < b THEN a ELSE b
Max2(a, b) == IF a > b THEN a ELSE b

\* sum of xs[i]*ys[i] over zip(xs, ys)
Dot(xs, ys) ==
  LET n == Min2(Len(xs), Len(ys)) IN SumTo([i \in 1..n |-> xs[i] * ys[i]], n)

\* math.log on positive arguments (a fixed monotone integer table, log(1) = 0)
log(x) == x - 1
\* math.exp (a fixed positive integer table, exp(0) = 1)
exp(x) == IF x >= 0 THEN x + 1 ELSE 1
\* math.log of a mole fraction: log(1) = 0, decreasing below; log(z) with
\* z <= 0 raises ValueError and is handled by the caller
log_z(z) == z - 1

Horner(coeffs, x) ==
  LET RECURSIVE H(_)
      H(k) == IF k = 0 THEN 0 ELSE H(k - 1) * x + coeffs[k]
  IN H(Len(coeffs))

----------------------------------------------------------------------------
(* Results of method calls                                                 *)

\* Evaluates x once and hands its value to F (a local binding of a call result).
Bind(x, F(_)) == CHOOSE r \in {F(v) : v \in {x}} : TRUE

Ok(s, v, c) == [s |-> s, v |-> v, err |-> "", calls |-> c]
Raise(s, e, c) == [s |-> s, v |-> 0, err |-> e, calls |-> c]

CacheFields ==
  {"_log_zs", "_Cpigs", "_Cpig_integrals_pure", "_Cpig_integrals_over_T_pure",
   "_H_ideal_gas", "_S_ideal_gas", "_Cp_ideal_gas",
   "_H", "_S", "_Cp", "_V",
   "_Psats", "_dPsats_dT", "_d2Psats_dT2", "_Vms_sat", "_Vms_sat_dT", "_d2Vms_sat_dT2",
   "_Hvaps", "_dHvaps_dT", "_Hvaps_T_ref", "_Psats_T_ref", "_Vms_sat_T_ref",
   "_dVms_sat_dT_T_ref", "_phis_sat", "_dphis_sat_dT", "_Cpl_integrals_pure", "_Cpl_integrals_over_T_pure",
   "_Tait_Bs", "_Tait_Cs", "_dTait_B_dTs", "_dTait_C_dTs", "_dH_dP_integrals_Tait",
   "_mechanical_critical_T", "_mechanical_critical_P", "_mechanical_critical_V"}

EmptyCache == [f \in CacheFields |-> <<>>]
Cached(s, f) == s.cache[f] # <<>>
Get(s, f) == s.cache[f][1]
Put(s, f, v) == [s EXCEPT !.cache[f] = <<v>>]

cmps(s) == 1..s.N
Has(s, attr) == attr \notin s.missing

----------------------------------------------------------------------------
(* Correlation objects (external collaborators): fixed integer tables      *)

\* HeatCapacityGases[i].T_dependent_property(T)
Cpg_T_dependent_property(i, T) == 20 + i + 2 * T
\* HeatCapacityGases[i].T_dependent_property_integral(T_REF_IG, T)
Cpg_T_dependent_property_integral(i, T) == (22 + i) * (T - T_REF_IG)
\* HeatCapacityGases[i].T_dependent_property_integral_over_T(T_REF_IG, T)
Cpg_T_dependent_property_integral_over_T(i, T) == (11 + i) * (T - T_REF_IG)

\* Best-fit attributes of a locked correlation object i of a group
\* (best_fit_Tmin, ..., best_fit_T_int_T_coeffs); `base` tells the groups apart.
best_fit(i, base) ==
  [Tmin |-> 2, Tmax |-> 2, Tmin_slope |-> 2, Tmax_slope |-> 2,
   Tmin_value |-> base + i + 4, Tmax_value |-> base + i + 4,
   coeffs |-> <<2, base + i>>,
   int_coeffs |-> <<1, base + i, 0>>,
   T_int_T_coeffs |-> <<2, 0>>,
   log_coeff |-> base + i]

\* fluids.numerics.horner_log
horner_log(coeffs, log_coeff, x) == Horner(coeffs, x) + log_coeff * log(x)

\* fluids.numerics.best_fit_integral_value
best_fit_integral_value(T, o) ==
  LET below == o.Tmin * ((o.Tmin_slope * o.Tmin) \div 2
                          + (o.Tmin_value - o.Tmin_slope * o.Tmin))
      mid == Horner(o.int_coeffs, o.Tmax) - Horner(o.int_coeffs, o.Tmin)
      x2 == o.Tmax_value - o.Tmax_slope * o.Tmax
  IN IF T < o.Tmin
       THEN T * ((o.Tmin_slope * T) \div 2 + (o.Tmin_value - o.Tmin_slope * o.Tmin))
     ELSE IF T <= o.Tmax
       THEN below + Horner(o.int_coeffs, T) - Horner(o.int_coeffs, o.Tmin)
     ELSE below + mid + T * ((o.Tmax_slope * T) \div 2 + x2)
            - o.Tmax * ((o.Tmax_slope * o.Tmax) \div 2 + x2)

\* fluids.numerics.best_fit_integral_over_T_value
best_fit_integral_over_T_value(T, o) ==
  LET x1 == o.Tmin_value - o.Tmin_slope * o.Tmin
      below == o.Tmin_slope * o.Tmin + x1 * log(o.Tmin)
      mid == horner_log(o.T_int_T_coeffs, o.log_coeff, o.Tmax)
               - horner_log(o.T_int_T_coeffs, o.log_coeff, o.Tmin)
      x2 == o.Tmax_value - o.Tmax_slope * o.Tmax
  IN IF T < o.Tmin THEN o.Tmin_slope * T + x1 * log(T)
     ELSE IF T <= o.Tmax
       THEN below + horner_log(o.T_int_T_coeffs, o.log_coeff, T)
              - horner_log(o.T_int_T_coeffs, o.log_coeff, o.Tmin)
     ELSE below + mid + o.Tmax_slope * (T - o.Tmax) + x2 * (log(T) - log(o.Tmax))

\* Phase.setup_Cpigs, entries 7 and 8 of the tuple: the offsets of the
\* polynomial piece and of the high-temperature piece of the integral
low_integral(o) ==
  o.Tmin * ((o.Tmin_slope * o.Tmin) \div 2 + o.Tmin_value - o.Tmin_slope * o.Tmin)

\* The offset as the plain polynomial value at Tmin.
integral_offset_Tmin_plain(o) == Horner(o.int_coeffs, o.Tmin)

integral_offset_Tmin(o) == Horner(o.int_coeffs, o.Tmin) - low_integral(o)

integral_offset_Tmax(o) ==
  Horner(o.int_coeffs, o.Tmax) - Horner(o.int_coeffs, o.Tmin) + low_integral(o)

\* Phase.setup_Cpigs: the table bundle of a locked group, from the best-fit
\* attributes of its objects; entry k of the source tuple is element k + 1 here.
setup_Cpigs(HeatCapacityGases) ==
  LET n == Len(HeatCapacityGases)
      o(i) == HeatCapacityGases[i]
      lowlog(i) == o(i).Tmin_slope * o(i).Tmin
                     + (o(i).Tmin_value - o(i).Tmin_slope * o(i).Tmin) * log(o(i).Tmin)
  IN << [i \in 1..n |-> o(i).Tmin],
        [i \in 1..n |-> o(i).Tmin_slope],
        [i \in 1..n |-> o(i).Tmin_value],
        [i \in 1..n |-> o(i).Tmax],
        [i \in 1..n |-> o(i).Tmax_slope],
        [i \in 1..n |-> o(i).Tmax_value],
        [i \in 1..n |-> o(i).log_coeff],
        [i \in 1..n |-> integral_offset_Tmin(o(i))],
        [i \in 1..n |-> integral_offset_Tmax(o(i))],
        [i \in 1..n |-> horner_log(o(i).T_int_T_coeffs, o(i).log_coeff, o(i).Tmin)
                          - lowlog(i)],
        [i \in 1..n |-> horner_log(o(i).T_int_T_coeffs, o(i).log_coeff, o(i).Tmax)
                          - horner_log(o(i).T_int_T_coeffs, o(i).log_coeff, o(i).Tmin)
                          + lowlog(i)
                          - (o(i).Tmax_value - o(i).Tmax * o(i).Tmax_slope) * log(o(i).Tmax)],
        [i \in 1..n |-> best_fit_integral_value(T_REF_IG, o(i))],
        [i \in 1..n |-> o(i).coeffs],
        [i \in 1..n |-> o(i).int_coeffs],
        [i \in 1..n |-> o(i).T_int_T_coeffs],
        [i \in 1..n |-> best_fit_integral_over_T_value(T_REF_IG, o(i))] >>

\* bundles of the ideal-gas and liquid heat-capacity groups
Cpgs_data == setup_Cpigs([i \in 1..N |-> best_fit(i, 20)])
Cpls_data == setup_Cpigs([i \in 1..N |-> best_fit(i, 40)])

----------------------------------------------------------------------------
(* Piecewise-fit evaluator (Phase, 610-715)                                *)

\* the branch taken for component i: if T < Tmins[i] / elif T > Tmaxs[i] / else
Cp_region(T, Tmin, Tmax) ==
  IF T < Tmin THEN "below" ELSE IF T > Tmax THEN "above" ELSE "inside"

\* A boundary slip: T == Tmin is sent to the low-temperature piece.
Cp_integral_region_closed(T, Tmin, Tmax) ==
  IF T <= Tmin THEN "below" ELSE IF T <= Tmax THEN "inside" ELSE "above"

\* if T < Tmins[i] / elif (T <= Tmaxes[i]) / else
Cp_integral_region(T, Tmin, Tmax) ==
  IF T < Tmin THEN "below" ELSE IF T <= Tmax THEN "inside" ELSE "above"

\* if T < Tmin / elif (Tmin <= T <= Tmaxes[i]) / else
Cp_integral_over_T_region(T, Tmin, Tmax) ==
  IF T < Tmin THEN "below" ELSE IF Tmin <= T /\ T <= Tmax THEN "inside" ELSE "above"

\* the body of each branch of _Cp_pure_fast
Cp_piece(Cps_data, i, T, region) ==
  IF region = "below"
    THEN (T - Cps_data[1][i]) * Cps_data[2][i] + Cps_data[3][i]
  ELSE IF region = "above"
    THEN (T - Cps_data[4][i]) * Cps_data[5][i] + Cps_data[6][i]
  ELSE Horner(Cps_data[13][i], T)

\* the body of each branch of _Cp_integrals_pure_fast (H, before the
\* reference value is subtracted)
Cp_integral_piece(Cps_data, i, T, region) ==
  IF region = "below"
    THEN T * ((Cps_data[2][i] * T) \div 2
              + (Cps_data[3][i] - Cps_data[2][i] * Cps_data[1][i]))
  ELSE IF region = "inside"
    THEN Horner(Cps_data[14][i], T) - Cps_data[8][i]
  ELSE LET x1 == Cps_data[6][i] - Cps_data[5][i] * Cps_data[4][i]
       IN T * ((Cps_data[5][i] * T) \div 2 + x1)
            - Cps_data[4][i] * ((Cps_data[5][i] * Cps_data[4][i]) \div 2 + x1)
            + Cps_data[9][i]

\* the body of each branch of _Cp_integrals_over_T_pure_fast
Cp_integral_over_T_piece(Cps_data, i, T, region) ==
  IF region = "below"
    THEN Cps_data[2][i] * T
           + (Cps_data[3][i] - Cps_data[2][i] * Cps_data[1][i]) * log(T)
  ELSE IF region = "inside"
    THEN Horner(Cps_data[15][i], T) + Cps_data[7][i] * log(T) - Cps_data[10][i]
  ELSE Cps_data[11][i] - Cps_data[5][i] * (Cps_data[4][i] - T)
         + (Cps_data[6][i] - Cps_data[4][i] * Cps_data[5][i]) * log(T)

_Cp_pure_fast(s, Cps_data) ==
  [i \in cmps(s) |->
     Cp_piece(Cps_data, i, s.T, Cp_region(s.T, Cps_data[1][i], Cps_data[4][i]))]

_Cp_integrals_pure_fast(s, Cps_data) ==
  [i \in cmps(s) |->
     Cp_integral_piece(Cps_data, i, s.T,
                       Cp_integral_region(s.T, Cps_data[1][i], Cps_data[4][i]))
       - Cps_data[12][i]]

_Cp_integrals_over_T_pure_fast(s, Cps_data) ==
  [i \in cmps(s) |->
     Cp_integral_over_T_piece(Cps_data, i, s.T,
                              Cp_integral_over_T_region(s.T, Cps_data[1][i], Cps_data[4][i]))
       - Cps_data[16][i]]

----------------------------------------------------------------------------
(* Phase: ideal-gas reference properties (192-206, 717-887)                *)

LOG_FLOOR == -691   \* log(1e-300), rounded

NoState(s, attrs) == \E a \in attrs : ~Has(s, a)
\* the attribute is bound to None
IsNone(s, attr) == attr \in s.none

\* The fallback loop left out: a non-positive entry surfaces as ValueError.
log_zs_nofloor(s) ==
  IF Cached(s, "_log_zs") THEN Ok(s, Get(s, "_log_zs"), 0)
  ELSE IF NoState(s, {"zs"}) THEN Raise(s, "AttributeError", 0)
  ELSE IF \E i \in 1..Len(s.zs) : s.zs[i] <= 0 THEN Raise(s, "ValueError", 0)
  ELSE Bind([i \in 1..Len(s.zs) |-> log_z(s.zs[i])],
            LAMBDA v : Ok(Put(s, "_log_zs", v), v, 0))

log_zs(s) ==
  IF Cached(s, "_log_zs") THEN Ok(s, Get(s, "_log_zs"), 0)
  ELSE IF NoState(s, {"zs"}) THEN Raise(s, "AttributeError", 0)
  ELSE Bind(IF \A i \in 1..Len(s.zs) : s.zs[i] > 0
                  THEN [i \in 1..Len(s.zs) |-> log_z(s.zs[i])]
                  ELSE [i \in 1..Len(s.zs) |->
                          IF s.zs[i] > 0 THEN log_z(s.zs[i]) ELSE LOG_FLOOR],
            LAMBDA v : Ok(Put(s, "_log_zs", v), v, 0))

Cpigs_pure(s) ==
  IF Cached(s, "_Cpigs") THEN Ok(s, Get(s, "_Cpigs"), 0)
  ELSE IF s.Cpgs_locked
    THEN IF NoState(s, {"T", "cmps"}) THEN Raise(s, "AttributeError", 0)
         ELSE Bind(_Cp_pure_fast(s, Cpgs_data),
                   LAMBDA v : Ok(Put(s, "_Cpigs", v), v, 0))
  ELSE IF NoState(s, {"T"}) THEN Raise(s, "AttributeError", 0)
  ELSE LET n == Len(s.HeatCapacityGases)
           v == [i \in 1..n |-> Cpg_T_dependent_property(i, s.T)]
       IN Ok(Put(s, "_Cpigs", v), v, n)

Cpig_integrals_pure(s) ==
  IF Cached(s, "_Cpig_integrals_pure") THEN Ok(s, Get(s, "_Cpig_integrals_pure"), 0)
  ELSE IF s.Cpgs_locked
    THEN IF NoState(s, {"T", "cmps"}) THEN Raise(s, "AttributeError", 0)
         ELSE Bind(_Cp_integrals_pure_fast(s, Cpgs_data),
                   LAMBDA v : Ok(Put(s, "_Cpig_integrals_pure", v), v, 0))
  ELSE IF NoState(s, {"T"}) THEN Raise(s, "AttributeError", 0)
  ELSE LET n == Len(s.HeatCapacityGases)
           v == [i \in 1..n |-> Cpg_T_dependent_property_integral(i, s.T)]
       IN Ok(Put(s, "_Cpig_integrals_pure", v), v, n)

Cpig_integrals_over_T_pure(s) ==
  IF Cached(s, "_Cpig_integrals_over_T_pure")
    THEN Ok(s, Get(s, "_Cpig_integrals_over_T_pure"), 0)
  ELSE IF s.Cpgs_locked
    THEN IF NoState(s, {"T", "cmps"}) THEN Raise(s, "AttributeError", 0)
         ELSE Bind(_Cp_integrals_over_T_pure_fast(s, Cpgs_data),
                   LAMBDA v : Ok(Put(s, "_Cpig_integrals_over_T_pure", v), v, 0))
  ELSE IF NoState(s, {"T"}) THEN Raise(s, "AttributeError", 0)
  ELSE LET n == Len(s.HeatCapacityGases)
           v == [i \in 1..n |-> Cpg_T_dependent_property_integral_over_T(i, s.T)]
       IN Ok(Put(s, "_Cpig_integrals_over_T_pure", v), v, n)

V_ideal_gas(s) ==
  IF NoState(s, {"T", "P"}) THEN Raise(s, "AttributeError", 0)
  ELSE IF IsNone(s, "P") THEN Raise(s, "TypeError", 0)
  ELSE Ok(s, (R * s.T) \div s.P, 0)

H_ideal_gas(s) ==
  IF Cached(s, "_H_ideal_gas") THEN Ok(s, Get(s, "_H_ideal_gas"), 0)
  ELSE IF NoState(s, {"zs"}) THEN Raise(s, "AttributeError", 0)
  ELSE Bind(Cpig_integrals_pure(s), LAMBDA r :
         IF r.err # "" THEN r
         ELSE Bind(Dot(s.zs, r.v), LAMBDA Hig :
                Ok(Put(r.s, "_H_ideal_gas", Hig), Hig, r.calls)))

\* the ideal-gas entropy sum shared by Phase.S_ideal_gas and EOSGas.S
ideal_entropy_sum(s, log_zs_v, integrals) ==
  0 - R * SumTo([i \in cmps(s) |-> s.zs[i] * log_zs_v[i]], s.N)
    - R * log(s.P \div P_REF_IG)
    + SumTo([i \in cmps(s) |-> s.zs[i] * integrals[i]], s.N)

S_ideal_gas(s) ==
  IF Cached(s, "_S_ideal_gas") THEN Ok(s, Get(s, "_S_ideal_gas"), 0)
  ELSE Bind(Cpig_integrals_over_T_pure(s), LAMBDA r1 :
         IF r1.err # "" THEN r1
         ELSE Bind(log_zs(r1.s), LAMBDA r2 :
                IF r2.err # "" THEN Raise(r2.s, r2.err, r1.calls)
                ELSE IF NoState(s, {"T", "P", "zs", "cmps"})
                  THEN Raise(r2.s, "AttributeError", r1.calls)
                ELSE IF IsNone(s, "P") THEN Raise(r2.s, "TypeError", r1.calls)
                ELSE Bind(ideal_entropy_sum(s, r2.v, r1.v), LAMBDA Sig :
                       Ok(Put(r2.s, "_S_ideal_gas", Sig), Sig, r1.calls))))

Cp_ideal_gas(s) ==
  IF Cached(s, "_Cp_ideal_gas") THEN Ok(s, Get(s, "_Cp_ideal_gas"), 0)
  ELSE Bind(Cpigs_pure(s), LAMBDA r :
         IF r.err # "" THEN r
         ELSE IF NoState(s, {"zs", "cmps"}) THEN Raise(r.s, "AttributeError", r.calls)
         ELSE Bind(SumTo([i \in cmps(s) |-> s.zs[i] * r.v[i]], s.N), LAMBDA Cpig :
                Ok(Put(r.s, "_Cp_ideal_gas", Cpig), Cpig, r.calls)))

----------------------------------------------------------------------------
(* Equation-of-state mixture object (external collaborator)                *)

\* Branch attributes of eos_mix read by EOSGas / EOSLiquid, numbered.
EOSQuantity ==
  [lnphis |-> 1, dlnphis_dT |-> 2, dlnphis_dP |-> 3, H_dep |-> 4, S_dep |-> 5,
   Cp_dep |-> 6, V |-> 7, dP_dT |-> 8, dP_dV |-> 9, d2P_dT2 |-> 10,
   d2P_dV2 |-> 11, d2P_dTdV |-> 12, d2T_dV2 |-> 13, d2V_dT2 |-> 14,
   dH_dP |-> 15, dS_dT |-> 16, dS_dP |-> 17]

\* Value of attribute q of root b of an eos_mix solved at the snapshot's state:
\* different for every quantity and root.
eos_value(s, q, b) ==
  10 * EOSQuantity[q] + (IF b = "g" THEN 5 ELSE 1) + s.T + s.P

has_root(s, b) == b \in s.eos_mix

class_source(s) ==
  IF s.kind = "EOSLiquid" THEN EOSLiquid_source ELSE EOSGas_source

----------------------------------------------------------------------------
(* EOSGas and, through class_source, EOSLiquid (1112-1447)                 *)

\* A mirror slip: the except clause is tried first.
selected_root_swapped(s, method) ==
  Bind(class_source(s)[method], LAMBDA src :
    Bind(<<BranchOf(src[2]), BranchOf(src[1])>>, LAMBDA try :
      IF ~Has(s, "eos_mix") THEN ""
      ELSE IF has_root(s, try[1]) THEN try[1]
      ELSE IF has_root(s, try[2]) THEN try[2]
      ELSE ""))

\* try: <first expression>  except AttributeError: <second expression>
\* The root actually read, or "" when the except clause raises too.
selected_root(s, method) ==
  Bind(class_source(s)[method], LAMBDA src :
    Bind(<<BranchOf(src[1]), BranchOf(src[2])>>, LAMBDA try :
      IF ~Has(s, "eos_mix") THEN ""
      ELSE IF has_root(s, try[1]) THEN try[1]
      ELSE IF has_root(s, try[2]) THEN try[2]
      ELSE ""))

\* A slip in error handling: a missing root yields a default instead of raising.
EOS_primitive_noraise(s, q) ==
  Bind(selected_root(s, q), LAMBDA b :
    IF b = "" THEN Ok(s, 0, 0) ELSE Ok(s, eos_value(s, q, b), 0))

\* V, dP_dT, dP_dV, d2P_dT2, d2P_dV2, d2P_dTdV, d2T_dV2, d2V_dT2, H_dep, S_dep,
\* Cp_dep, dH_dP: one try/except each.
EOS_primitive(s, q) ==
  Bind(selected_root(s, q), LAMBDA b :
    IF b = "" THEN Raise(s, "AttributeError", 0)
    ELSE Ok(s, eos_value(s, q, b), 0))

\* lnphis, dlnphis_dT, dlnphis_dP: lists of N values from the selected root.
EOS_primitive_list(s, q) ==
  Bind(selected_root(s, q), LAMBDA b :
    IF b = "" THEN Raise(s, "AttributeError", 0)
    ELSE IF NoState(s, {"zs"}) THEN Raise(s, "AttributeError", 0)
    ELSE Ok(s, [i \in 1..Len(s.zs) |-> eos_value(s, q, b) + i], 0))

EOS_H(s) ==
  IF Cached(s, "_H") THEN Ok(s, Get(s, "_H"), 0)
  ELSE Bind(EOS_primitive(s, "H_dep"), LAMBDA r1 :
         IF r1.err # "" THEN r1
         ELSE IF NoState(s, {"zs"}) THEN Raise(s, "AttributeError", 0)
         ELSE Bind(Cpig_integrals_pure(s), LAMBDA r2 :
                IF r2.err # "" THEN r2
                ELSE Bind(r1.v + Dot(s.zs, r2.v), LAMBDA Hv :
                       Ok(Put(r2.s, "_H", Hv), Hv, r2.calls))))

EOS_S(s) ==
  IF Cached(s, "_S") THEN Ok(s, Get(s, "_S"), 0)
  ELSE Bind(Cpig_integrals_over_T_pure(s), LAMBDA r1 :
         IF r1.err # "" THEN r1
         ELSE Bind(log_zs(r1.s), LAMBDA r2 :
                IF r2.err # "" THEN Raise(r2.s, r2.err, r1.calls)
                ELSE IF NoState(s, {"T", "P", "zs", "cmps"})
                  THEN Raise(r2.s, "AttributeError", r1.calls)
                ELSE IF IsNone(s, "P") THEN Raise(r2.s, "TypeError", r1.calls)
                ELSE Bind(EOS_primitive(r2.s, "S_dep"), LAMBDA r3 :
                       IF r3.err # "" THEN Raise(r2.s, r3.err, r1.calls)
                       ELSE Bind(ideal_entropy_sum(s, r2.v, r1.v) + r3.v, LAMBDA Sv :
                              Ok(Put(r2.s, "_S", Sv), Sv, r1.calls)))))

\* Cp is recomputed on every call; only Cpigs_pure is memoized.
EOS_Cp(s) ==
  Bind(Cpigs_pure(s), LAMBDA r1 :
    IF r1.err # "" THEN r1
    ELSE IF NoState(s, {"zs", "cmps"}) THEN Raise(r1.s, "AttributeError", r1.calls)
    ELSE Bind(EOS_primitive(r1.s, "Cp_dep"), LAMBDA r2 :
           IF r2.err # "" THEN Raise(r1.s, r2.err, r1.calls)
           ELSE Ok(r1.s, SumTo([i \in cmps(s) |-> s.zs[i] * r1.v[i]], s.N) + r2.v,
                   r1.calls)))

\* dS_dT evaluates every HeatCapacityGases object on each call.
EOS_dS_dT(s) ==
  IF NoState(s, {"cmps", "T", "zs"}) THEN Raise(s, "AttributeError", 0)
  ELSE Bind(Min2(Len(s.zs), Len(s.HeatCapacityGases)), LAMBDA n :
         Bind(EOS_primitive(s, "dS_dT"), LAMBDA r :
           IF r.err # "" THEN Raise(s, r.err, n)
           ELSE Ok(s, SumTo([i \in 1..n |->
                               s.zs[i] * Cpg_T_dependent_property(i, s.T)], n) \div s.T
                      + r.v, n)))

EOS_dS_dP(s) ==
  IF NoState(s, {"P"}) THEN Raise(s, "AttributeError", 0)
  ELSE IF IsNone(s, "P") THEN Raise(s, "TypeError", 0)
  ELSE Bind(EOS_primitive(s, "dS_dP"), LAMBDA r :
         IF r.err # "" THEN r ELSE Ok(s, 0 - R \div s.P + r.v, 0))

----------------------------------------------------------------------------
(* Correlation objects of GibbsExcessLiquid (external collaborators)       *)

\* A VaporPressure object: locked or not, its selected method, its Tmax, and
\* whether evaluating it at the temperature asked for raises
VaporPressure(locked) ==
  [locked |-> locked, method |-> "best", Tmax |-> 2, raises |-> FALSE]
\* VaporPressures[i](T), its derivatives
Psat_generic(i, T) == i + T - 1
dPsat_dT_generic(i, T) == 1 + 0 * (i + T)
\* VolumeLiquids[i].T_dependent_property(T), its derivatives
Vm_sat_generic(i, T) == 2 + i + T
dVm_sat_dT_generic(i, T) == 1 + 0 * (i + T)
d2Vm_sat_dT2_generic(i, T) == i + 0 * T
\* EnthalpyVaporizations[i](T), its derivative
Hvap_generic(i, T) == 9 + i - T
dHvap_dT_generic(i, T) == 0 - 1 + 0 * (i + T)
\* HeatCapacityLiquids[i] integrals from T_REF_IG
Cpl_T_dependent_property_integral(i, T) == (42 + i) * (T - T_REF_IG)
Cpl_T_dependent_property_integral_over_T(i, T) == (21 + i) * (T - T_REF_IG)

\* Table bundle of a locked group with value, first- and second-derivative
\* polynomials (Psats_data, Vms_sat_data): entry k of the source tuple is
\* element k + 1 here.
linear_fit_data(base) ==
  << [i \in 1..N |-> 2], [i \in 1..N |-> 4], [i \in 1..N |-> base + i + 4],
     [i \in 1..N |-> 2], [i \in 1..N |-> 4], [i \in 1..N |-> base + i + 4],
     [i \in 1..N |-> <<1, 0, base + i>>],
     [i \in 1..N |-> <<2, 0>>],
     [i \in 1..N |-> <<2>>] >>

Psats_data == linear_fit_data(0)
Vms_sat_data == linear_fit_data(2)

\* Hvap_data: Tmins, Tmaxes, Tcs, 1/Tcs, coeffs
Hvap_data ==
  << [i \in 1..N |-> 1], [i \in 1..N |-> 2], [i \in 1..N |-> 2],
     [i \in 1..N |-> 2], [i \in 1..N |-> <<1, 8 + i>>] >>

\* fluids.numerics.evaluate_linear_fits / _d / _d2
evaluate_linear_fits(data, x) ==
  [i \in 1..Len(data[1]) |->
     IF x < data[1][i] THEN (x - data[1][i]) * data[2][i] + data[3][i]
     ELSE IF x > data[4][i] THEN (x - data[4][i]) * data[5][i] + data[6][i]
     ELSE Horner(data[7][i], x)]

evaluate_linear_fits_d(data, x) ==
  [i \in 1..Len(data[1]) |->
     IF x < data[1][i] THEN data[2][i]
     ELSE IF x > data[4][i] THEN data[5][i]
     ELSE Horner(data[8][i], x)]

evaluate_linear_fits_d2(data, x) ==
  [i \in 1..Len(data[1]) |->
     IF data[1][i] < x /\ x < data[4][i] THEN Horner(data[9][i], x) ELSE 0]

----------------------------------------------------------------------------
(* Activity-coefficient model (external collaborator)                      *)

GE_gammas(g) == [i \in 1..Len(g.xs) |-> IF g.ideal THEN 1 ELSE 1 + g.T + g.xs[i]]
GE_HE(g) == IF g.ideal THEN 0 ELSE 3 + g.T
GE_SE(g) == IF g.ideal THEN 0 ELSE 1 + g.T
GE_CpE(g) == IF g.ideal THEN 0 ELSE 2
\* A model object at (T, xs): oid tells the objects on the heap apart, _gammas
\* is what the object has memoized.
GE_object(ideal, T, xs, oid) ==
  [ideal |-> ideal, T |-> T, xs |-> xs, oid |-> oid, _gammas |-> <<>>]
\* GibbsExcessModel.to_T_xs(T, xs): a new model object at the new state
to_T_xs(g, T, xs) == GE_object(g.ideal, T, xs, 3 - g.oid)
\* GibbsExcessModel.gammas(): computed once per object and kept in its _gammas
GE_memo_gammas(g) ==
  IF g._gammas # <<>> THEN g ELSE [g EXCEPT !._gammas = <<GE_gammas(g)>>]

----------------------------------------------------------------------------
(* GibbsExcessLiquid: pure-component lists (1691-2035)                     *)

\* for i in self.VaporPressures (generic path): the objects are visited in
\* order, up to and including the first one whose evaluation raises
Psats_last_visited(s) ==
  LET vp == s.ge.VaporPressures
      bad == {i \in 1..Len(vp) : vp[i].raises}
  IN IF bad = {} THEN Len(vp) ELSE CHOOSE i \in bad : \A j \in bad : i <= j

\* i.method = None, on each visited object that is not locked when T < i.Tmax
Psats_reset_methods(s, k) ==
  LET vp == s.ge.VaporPressures
  IN [s EXCEPT !.ge.VaporPressures =
        [i \in 1..Len(vp) |->
           IF i <= k /\ ~vp[i].locked /\ s.T < vp[i].Tmax
             THEN [vp[i] EXCEPT !.method = "None"] ELSE vp[i]]]

\* Vcs[j]**(2.0/3.0) of the three hard-coded critical volumes, scaled
Vcs_weight == <<5, 10, 6>>
\* r[0] + r[1]/t + r[2]*log(t) + r[3]*t + r[4]/t**2 with r = henry_data[i][j]
log_Hi(i, j, t) == i + j + t
\* henry_data[i][j] is given for the components j that are solvents
henry_solvents(s) == {j \in cmps(s) : ~s.ge.henry_components[j]}
\* sum([zs[_]*Vcs[_]**(2.0/3.0) for _ in cmps if d[_]])
henry_weight_sum(s) ==
  SumTo([j \in cmps(s) |-> IF j \in henry_solvents(s)
                             THEN s.zs[j] * Vcs_weight[j] ELSE 0], s.N)
\* Psats[i] = exp(logH/z_sum)*1e5 with z_sum = 1
Henry_Psat(s, i) ==
  exp(SumTo([j \in cmps(s) |->
               IF j \in henry_solvents(s)
                 THEN s.zs[j] * Vcs_weight[j] * log_Hi(i, j, s.T) ELSE 0], s.N)
        \div henry_weight_sum(s)) * 100000

has_henry_components(s) == \E i \in 1..Len(s.ge.henry_components) : s.ge.henry_components[i]

\* if self.has_henry_components: ... on the list v that self._Psats holds;
\* wi divides by the weight sum of the solvents
Psats_henry(s, v, c) ==
  IF ~has_henry_components(s) THEN Ok(Put(s, "_Psats", v), v, c)
  ELSE IF henry_solvents(s) = {}
    THEN Bind([i \in 1..Len(v) |-> IF s.ge.henry_components[i] THEN exp(0) * 100000 ELSE v[i]],
              LAMBDA w : Ok(Put(s, "_Psats", w), w, c))
  ELSE IF henry_weight_sum(s) = 0 THEN Raise(Put(s, "_Psats", v), "ZeroDivisionError", c)
  ELSE Bind([i \in 1..Len(v) |-> IF s.ge.henry_components[i] THEN Henry_Psat(s, i) ELSE v[i]],
            LAMBDA w : Ok(Put(s, "_Psats", w), w, c))

\* the loop over self.VaporPressures and the Henry's-law replacement;
\* self._Psats is bound to the list before the loop fills it
Psats_generic_path(s) ==
  LET vp == s.ge.VaporPressures
      k == Psats_last_visited(s)
  IN IF vp[k].raises
       THEN Raise(Put(Psats_reset_methods(s, k), "_Psats",
                      [i \in 1..(k - 1) |-> Psat_generic(i, s.T)]),
                  "Exception", k)
     ELSE Psats_henry(Psats_reset_methods(s, k),
                      [i \in 1..Len(vp) |-> Psat_generic(i, s.T)], Len(vp))

\* the piece of the fit taken for a component in Psats and dPsats_dT:
\* if T < Tmins[i] / elif T > Tmaxes[i] / else
Psats_region(T, Tmin, Tmax) ==
  IF T < Tmin THEN "below" ELSE IF T > Tmax THEN "above" ELSE "inside"

\* the piece taken in d2Psats_dT2: if Tmins[i] < T < Tmaxes[i], else 0.0
d2Psats_dT2_region(T, Tmin, Tmax) ==
  IF Tmin < T /\ T < Tmax THEN "inside" ELSE "outside"

Psats(s) ==
  IF Cached(s, "_Psats") THEN Ok(s, Get(s, "_Psats"), 0)
  ELSE IF NoState(s, {"T", "cmps"}) THEN Raise(s, "AttributeError", 0)
  ELSE IF s.ge.Psats_locked
    THEN Bind([i \in cmps(s) |->
                 Bind(Psats_region(s.T, Psats_data[1][i], Psats_data[4][i]), LAMBDA region :
                     exp(IF region = "below"
                           THEN (s.T - Psats_data[1][i]) * Psats_data[2][i] + Psats_data[3][i]
                         ELSE IF region = "above"
                           THEN (s.T - Psats_data[4][i]) * Psats_data[5][i] + Psats_data[6][i]
                         ELSE Horner(Psats_data[7][i], s.T)))],
              LAMBDA v : Ok(Put(s, "_Psats", v), v, 0))
  ELSE Psats_generic_path(s)

dPsats_dT(s) ==
  IF Cached(s, "_dPsats_dT") THEN Ok(s, Get(s, "_dPsats_dT"), 0)
  ELSE IF NoState(s, {"T", "cmps"}) THEN Raise(s, "AttributeError", 0)
  ELSE IF s.ge.Psats_locked
    THEN Bind(Psats(s), LAMBDA r :
           Bind([i \in cmps(s) |->
                   Bind(Psats_region(s.T, Psats_data[1][i], Psats_data[4][i]), LAMBDA region :
                     IF region = "below" THEN Psats_data[2][i] * r.v[i]
                     ELSE IF region = "above" THEN Psats_data[5][i] * r.v[i]
                     ELSE Horner(Psats_data[8][i], s.T) * r.v[i])],
                LAMBDA v : Ok(Put(r.s, "_dPsats_dT", v), v, r.calls)))
  \* self._dPsats_dT = dPsats_dT = [] comes before the list is computed
  ELSE IF \E i \in 1..Len(s.ge.VaporPressures) : s.ge.VaporPressures[i].raises
    THEN Raise(Put(s, "_dPsats_dT", <<>>), "Exception", Psats_last_visited(s))
  ELSE Bind([i \in 1..s.N |-> dPsat_dT_generic(i, s.T)],
            LAMBDA v : Ok(Put(s, "_dPsats_dT", v), v, s.N))

\* the list d2Psats_dT2 builds from the lists Psats() and dPsats_dT() returned
d2Psats_dT2_list(s, P_, dP_) ==
  IF s.ge.Psats_locked
    THEN Bind([i \in cmps(s) |->
                 IF d2Psats_dT2_region(s.T, Psats_data[1][i], Psats_data[4][i]) = "inside"
                   THEN (dP_[i] * dP_[i]) \div P_[i] + P_[i] * Horner(Psats_data[9][i], s.T)
                   ELSE 0],
              LAMBDA v : Ok(Put(s, "_d2Psats_dT2", v), v, 0))
  ELSE Bind([i \in 1..Len(s.ge.VaporPressures) |-> 0 * dPsat_dT_generic(i, s.T)],
            LAMBDA v : Ok(Put(s, "_d2Psats_dT2", v), v, Len(s.ge.VaporPressures)))

d2Psats_dT2(s) ==
  IF Cached(s, "_d2Psats_dT2") THEN Ok(s, Get(s, "_d2Psats_dT2"), 0)
  ELSE Bind(Psats(s), LAMBDA r :
         IF r.err # "" THEN r
         ELSE Bind(dPsats_dT(r.s), LAMBDA d :
                IF d.err # "" THEN Raise(d.s, d.err, r.calls + d.calls)
                ELSE Bind(d2Psats_dT2_list(d.s, r.v, d.v), LAMBDA v :
                       [v EXCEPT !.calls = @ + r.calls + d.calls])))

Vms_sat(s) ==
  IF Cached(s, "_Vms_sat") THEN Ok(s, Get(s, "_Vms_sat"), 0)
  ELSE IF NoState(s, {"T", "cmps"}) THEN Raise(s, "AttributeError", 0)
  ELSE IF s.ge.Vms_sat_locked
    THEN Bind(evaluate_linear_fits(Vms_sat_data, s.T),
              LAMBDA v : Ok(Put(s, "_Vms_sat", v), v, 0))
  ELSE Bind([i \in cmps(s) |-> Vm_sat_generic(i, s.T)],
            LAMBDA v : Ok(Put(s, "_Vms_sat", v), v, s.N))

dVms_sat_dT(s) ==
  IF Cached(s, "_Vms_sat_dT") THEN Ok(s, Get(s, "_Vms_sat_dT"), 0)
  ELSE IF NoState(s, {"T"}) THEN Raise(s, "AttributeError", 0)
  ELSE IF s.ge.Vms_sat_locked
    THEN Bind(evaluate_linear_fits_d(Vms_sat_data, s.T),
              LAMBDA v : Ok(Put(s, "_Vms_sat_dT", v), v, 0))
  ELSE Bind([i \in 1..s.N |-> dVm_sat_dT_generic(i, s.T)],
            LAMBDA v : Ok(Put(s, "_Vms_sat_dT", v), v, s.N))

d2Vms_sat_dT2(s) ==
  IF Cached(s, "_d2Vms_sat_dT2") THEN Ok(s, Get(s, "_d2Vms_sat_dT2"), 0)
  ELSE IF NoState(s, {"T"}) THEN Raise(s, "AttributeError", 0)
  ELSE IF s.ge.Vms_sat_locked
    THEN Bind(evaluate_linear_fits_d2(Vms_sat_data, s.T),
              LAMBDA v : Ok(Put(s, "_d2Vms_sat_dT2", v), v, 0))
  ELSE Bind([i \in 1..s.N |-> d2Vm_sat_dT2_generic(i, s.T)],
            LAMBDA v : Ok(Put(s, "_d2Vms_sat_dT2", v), v, s.N))

Psats_T_ref(s) ==
  IF Cached(s, "_Psats_T_ref") THEN Ok(s, Get(s, "_Psats_T_ref"), 0)
  ELSE IF NoState(s, {"cmps"}) THEN Raise(s, "AttributeError", 0)
  ELSE Bind([i \in cmps(s) |-> Psat_generic(i, T_REF_IG)],
            LAMBDA v : Ok(Put(s, "_Psats_T_ref", v), v, s.N))

Vms_sat_T_ref(s) ==
  IF Cached(s, "_Vms_sat_T_ref") THEN Ok(s, Get(s, "_Vms_sat_T_ref"), 0)
  ELSE IF s.ge.Vms_sat_locked
    THEN Bind(evaluate_linear_fits(Vms_sat_data, T_REF_IG),
              LAMBDA v : Ok(Put(s, "_Vms_sat_T_ref", v), v, 0))
  ELSE IF NoState(s, {"cmps"}) THEN Raise(s, "AttributeError", 0)
  ELSE Bind([i \in cmps(s) |-> Vm_sat_generic(i, T_REF_IG)],
            LAMBDA v : Ok(Put(s, "_Vms_sat_T_ref", v), v, s.N))

\* On the locked path the source reads a local name T that is never bound.
dVms_sat_dT_T_ref(s) ==
  IF Cached(s, "_dVms_sat_dT_T_ref") THEN Ok(s, Get(s, "_dVms_sat_dT_T_ref"), 0)
  ELSE IF s.ge.Vms_sat_locked THEN Raise(s, "NameError", 0)
  ELSE IF NoState(s, {"cmps"}) THEN Raise(s, "AttributeError", 0)
  ELSE Bind([i \in cmps(s) |-> dVm_sat_dT_generic(i, T_REF_IG)],
            LAMBDA v : Ok(Put(s, "_dVms_sat_dT_T_ref", v), v, s.N))

\* log(1 - T/Tc) for T < Tc: a fixed negative integer table
log_reduced(T, Tc) == T - Tc

Hvaps(s) ==
  IF Cached(s, "_Hvaps") THEN Ok(s, Get(s, "_Hvaps"), 0)
  ELSE IF NoState(s, {"T", "cmps"}) THEN Raise(s, "AttributeError", 0)
  ELSE IF s.ge.Hvap_locked
    THEN Bind([i \in cmps(s) |->
                     IF s.T < Hvap_data[3][i]
                       THEN Horner(Hvap_data[5][i], log_reduced(s.T, Hvap_data[3][i]))
                       ELSE 0],
              LAMBDA v : Ok(Put(s, "_Hvaps", v), v, 0))
  ELSE Bind([i \in cmps(s) |-> Hvap_generic(i, s.T)],
            LAMBDA v : Ok(Put(s, "_Hvaps", v), v, s.N))

\* sum over coeffs[-2::-1] of a*c*x with x = p^(a-1), a = 1, 2, ...
horner_derivative_sum(coeffs, p) ==
  LET n == Len(coeffs)
  IN SumTo([a \in 1..(n - 1) |-> a * coeffs[n - a] * p ^ (a - 1)], n - 1)

dHvaps_dT(s) ==
  IF Cached(s, "_dHvaps_dT") THEN Ok(s, Get(s, "_dHvaps_dT"), 0)
  ELSE IF NoState(s, {"T", "cmps"}) THEN Raise(s, "AttributeError", 0)
  ELSE IF s.ge.Hvap_locked
    THEN Bind([i \in cmps(s) |->
                     IF s.T < Hvap_data[3][i]
                       THEN horner_derivative_sum(Hvap_data[5][i],
                                                  log_reduced(s.T, Hvap_data[3][i]))
                            \div (s.T - Hvap_data[3][i])
                       ELSE 0],
              LAMBDA v : Ok(Put(s, "_dHvaps_dT", v), v, 0))
  ELSE Bind([i \in cmps(s) |-> dHvap_dT_generic(i, s.T)],
            LAMBDA v : Ok(Put(s, "_dHvaps_dT", v), v, s.N))

\* A fresh object built with HeatCapacityLiquids carries an instance
\* attribute Hvaps_T_ref (a list) that hides this method.
Hvaps_T_ref(s) ==
  IF s.ge.Hvaps_T_ref_attr THEN Raise(s, "TypeError", 0)
  ELSE IF Cached(s, "_Hvaps_T_ref") THEN Ok(s, Get(s, "_Hvaps_T_ref"), 0)
  ELSE IF NoState(s, {"cmps"}) THEN Raise(s, "AttributeError", 0)
  ELSE Bind([i \in cmps(s) |-> Hvap_generic(i, T_REF_IG)],
            LAMBDA v : Ok(Put(s, "_Hvaps_T_ref", v), v, s.N))

\* i.phi_sat(T) of the pure-component eos objects
phi_sat_pure(i, T) == i + T

phis_sat(s) ==
  IF Cached(s, "_phis_sat") THEN Ok(s, Get(s, "_phis_sat"), 0)
  ELSE IF ~s.ge.use_phis_sat
    THEN Bind([i \in 1..s.N |-> 1], LAMBDA v : Ok(Put(s, "_phis_sat", v), v, 0))
  ELSE IF NoState(s, {"T"}) THEN Raise(s, "AttributeError", 0)
  ELSE Bind([i \in 1..s.N |-> phi_sat_pure(i, s.T)],
            LAMBDA v : Ok(Put(s, "_phis_sat", v), v, 0))

\* After the try block the test is `if not self._dphis_sat_dT:`, a read of the
\* very attribute whose absence sent control there; use_phis_sat is not read.
dphis_sat_dT(s) ==
  IF Cached(s, "_dphis_sat_dT") THEN Ok(s, Get(s, "_dphis_sat_dT"), 0)
  ELSE Raise(s, "AttributeError", 0)

Cpl_integrals_pure(s) ==
  IF Cached(s, "_Cpl_integrals_pure") THEN Ok(s, Get(s, "_Cpl_integrals_pure"), 0)
  ELSE IF s.ge.Cpls_locked
    THEN IF NoState(s, {"T", "cmps"}) THEN Raise(s, "AttributeError", 0)
         ELSE Bind(_Cp_integrals_pure_fast(s, Cpls_data),
                   LAMBDA v : Ok(Put(s, "_Cpl_integrals_pure", v), v, 0))
  ELSE IF NoState(s, {"T"}) THEN Raise(s, "AttributeError", 0)
  ELSE IF ~s.ge.HeatCapacityLiquids THEN Raise(s, "TypeError", 0)
  ELSE Bind([i \in 1..s.N |-> Cpl_T_dependent_property_integral(i, s.T)],
            LAMBDA v : Ok(Put(s, "_Cpl_integrals_pure", v), v, s.N))

Cpl_integrals_over_T_pure(s) ==
  IF Cached(s, "_Cpl_integrals_over_T_pure")
    THEN Ok(s, Get(s, "_Cpl_integrals_over_T_pure"), 0)
  ELSE IF s.ge.Cpls_locked
    THEN IF NoState(s, {"T", "cmps"}) THEN Raise(s, "AttributeError", 0)
         ELSE Bind(_Cp_integrals_over_T_pure_fast(s, Cpls_data),
                   LAMBDA v : Ok(Put(s, "_Cpl_integrals_over_T_pure", v), v, 0))
  ELSE IF NoState(s, {"T"}) THEN Raise(s, "AttributeError", 0)
  ELSE IF ~s.ge.HeatCapacityLiquids THEN Raise(s, "TypeError", 0)
  ELSE Bind([i \in 1..s.N |-> Cpl_T_dependent_property_integral_over_T(i, s.T)],
            LAMBDA v : Ok(Put(s, "_Cpl_integrals_over_T_pure", v), v, s.N))

----------------------------------------------------------------------------
(* GibbsExcessLiquid: Tait pressure correction (2663-2797)                 *)

Tait_B_data == linear_fit_data(4)
Tait_C_data == linear_fit_data(6)

\* Tait_Bs, Tait_Cs, dTait_B_dTs, dTait_C_dTs: cached table evaluations; the
\* tables exist only on objects built with use_Tait.
Tait_list(s, field, v) ==
  IF Cached(s, field) THEN Ok(s, Get(s, field), 0)
  ELSE IF ~s.ge.use_Tait THEN Raise(s, "TypeError", 0)
  ELSE IF NoState(s, {"T"}) THEN Raise(s, "AttributeError", 0)
  ELSE Ok(Put(s, field, v), v, 0)

Tait_Bs(s) == Tait_list(s, "_Tait_Bs", evaluate_linear_fits(Tait_B_data, s.T))
Tait_Cs(s) == Tait_list(s, "_Tait_Cs", evaluate_linear_fits(Tait_C_data, s.T))
dTait_B_dTs(s) == Tait_list(s, "_dTait_B_dTs", evaluate_linear_fits_d(Tait_B_data, s.T))
dTait_C_dTs(s) == Tait_list(s, "_dTait_C_dTs", evaluate_linear_fits_d(Tait_C_data, s.T))

----------------------------------------------------------------------------
(* GibbsExcessLiquid: H, S, Cp, departures, V (2321-2596)                  *)

\* The list-valued accessors a bulk property reads, by name.
GE_list(s, name) ==
  CASE name = "Psats" -> Psats(s)
    [] name = "dPsats_dT" -> dPsats_dT(s)
    [] name = "d2Psats_dT2" -> d2Psats_dT2(s)
    [] name = "Vms_sat" -> Vms_sat(s)
    [] name = "dVms_sat_dT" -> dVms_sat_dT(s)
    [] name = "d2Vms_sat_dT2" -> d2Vms_sat_dT2(s)
    [] name = "Hvaps" -> Hvaps(s)
    [] name = "dHvaps_dT" -> dHvaps_dT(s)
    [] name = "Hvaps_T_ref" -> Hvaps_T_ref(s)
    [] name = "Psats_T_ref" -> Psats_T_ref(s)
    [] name = "Vms_sat_T_ref" -> Vms_sat_T_ref(s)
    [] name = "dVms_sat_dT_T_ref" -> dVms_sat_dT_T_ref(s)
    [] name = "Cpl_integrals_pure" -> Cpl_integrals_pure(s)
    [] name = "Cpl_integrals_over_T_pure" -> Cpl_integrals_over_T_pure(s)
    [] name = "Cpigs_pure" -> Cpigs_pure(s)
    [] name = "Cpig_integrals_pure" -> Cpig_integrals_pure(s)
    [] name = "Cpig_integrals_over_T_pure" -> Cpig_integrals_over_T_pure(s)
    [] name = "log_zs" -> log_zs(s)
    [] name = "phis_sat" -> phis_sat(s)
    [] name = "dphis_sat_dT" -> dphis_sat_dT(s)
    [] name = "Tait_Bs" -> Tait_Bs(s)
    [] name = "Tait_Cs" -> Tait_Cs(s)
    [] name = "dTait_C_dTs" -> dTait_C_dTs(s)
    [] name = "dTait_B_dTs" -> dTait_B_dTs(s)

\* Calls the named accessors in order on one object, stopping at the first
\* exception; vals maps each name to the list it returned.
RECURSIVE call_in_order(_, _, _)
call_in_order(acc, names, k) ==
  IF k > Len(names) \/ acc.err # "" THEN acc
  ELSE Bind(GE_list(acc.s, names[k]), LAMBDA r :
         call_in_order([s |-> r.s, err |-> r.err, calls |-> acc.calls + r.calls,
                        vals |-> IF r.err = "" THEN (names[k] :> r.v) @@ acc.vals
                                 ELSE acc.vals],
                       names, k + 1))

call_all(s, names) ==
  call_in_order([s |-> s, err |-> "", calls |-> 0, vals |-> <<>>], names, 1)

Sum(s, f) == SumTo(f, s.N)

\* The closed-form Tait integral of component i (2741-2795); x holds the lists read.
dH_dP_integral_Tait(s, x, i) ==
  LET x0 == x["Tait_Bs"][i]
      x1 == s.P + x0
      x2 == x["Psats"][i]
      x3 == x0 + x2
      x5 == x["Tait_Cs"][i]
      x6 == x["Vms_sat"][i]
      x7 == x5 * x6
      x8 == s.T * x["dVms_sat_dT"][i]
      x9 == x5 * x8
      x10 == s.T * x["dTait_C_dTs"][i]
      x11 == x0 * x6
      x12 == s.T * x7
  IN Bind(0 - x0 * x7 + x0 * x9 + x10 * x11 + x12 * x["dTait_B_dTs"][i], LAMBDA x13 :
       Bind((x0 * x8 + x10 * x2 * x6 - x11 + x12 * x["dPsats_dT"][i]
             + x13 - x2 * x6 - x2 * x7 + x2 * x8 + x2 * x9) \div x3, LAMBDA x15 :
         0 - s.P * x15 + s.P * (x10 * x6 - x7 + x9) * (log(x1) - log(x3))
         + x13 * log(x1) - x13 * log(x3) + x15 * x2))

dH_dP_integrals_Tait(s) ==
  IF Cached(s, "_dH_dP_integrals_Tait") THEN Ok(s, Get(s, "_dH_dP_integrals_Tait"), 0)
  ELSE Bind(call_all(s, <<"Psats", "Vms_sat", "dVms_sat_dT", "dPsats_dT", "Tait_Bs",
                          "Tait_Cs", "dTait_C_dTs", "dTait_B_dTs">>), LAMBDA c :
         IF c.err # "" THEN Raise(c.s, c.err, c.calls)
         ELSE IF NoState(s, {"T", "P", "zs"}) THEN Raise(c.s, "AttributeError", c.calls)
         ELSE Bind([i \in cmps(s) |-> dH_dP_integral_Tait(s, c.vals, i)], LAMBDA v :
                Ok(Put(c.s, "_dH_dP_integrals_Tait", v), v, c.calls)))

\* GibbsExcessLiquid.gammas (2321-2325): the model object's memo, else its
\* gammas(), which leaves the memo in the object
GibbsExcessLiquid_gammas(s) ==
  IF s.ge.GibbsExcessModel._gammas # <<>>
    THEN Ok(s, s.ge.GibbsExcessModel._gammas[1], 0)
    ELSE Bind(GE_memo_gammas(s.ge.GibbsExcessModel), LAMBDA g :
           Ok([s EXCEPT !.ge.GibbsExcessModel = g], g._gammas[1], 0))

\* The accessors H reads, in the order it calls them.
GibbsExcessLiquid_H_reads(s) ==
  IF ~s.ge.P_DEPENDENT_H_LIQ THEN <<"Cpig_integrals_pure", "Hvaps">>
  ELSE IF s.ge.use_IG_Cp
    THEN <<"Cpig_integrals_pure", "Psats", "Vms_sat", "dVms_sat_dT", "dPsats_dT">>
  ELSE <<"Cpig_integrals_pure", "Psats", "Vms_sat", "dVms_sat_dT", "dPsats_dT",
         "Hvaps_T_ref", "Cpl_integrals_pure", "dVms_sat_dT_T_ref", "Vms_sat_T_ref",
         "Psats_T_ref", "Hvaps">>

\* H before the excess term, from the lists x and the Tait integrals tait.
GibbsExcessLiquid_H_sum(s, x, tait) ==
  IF ~s.ge.P_DEPENDENT_H_LIQ
    THEN Sum(s, [i \in cmps(s) |->
           s.zs[i] * (x["Cpig_integrals_pure"][i] - x["Hvaps"][i])])
  ELSE IF s.ge.use_IG_Cp
    THEN Sum(s, [i \in cmps(s) |->
           s.zs[i] * (x["Cpig_integrals_pure"][i]
                      - s.T * (x["dPsats_dT"][i]
                               * ((R * s.T) \div x["Psats"][i] - x["Vms_sat"][i])))])
         + (IF s.ge.use_Tait
              THEN Sum(s, [i \in cmps(s) |-> s.zs[i] * tait[i]])
              ELSE Sum(s, [i \in cmps(s) |->
                     s.zs[i] * Max2(0, s.P - x["Psats"][i])
                     * (x["Vms_sat"][i] - s.T * x["dVms_sat_dT"][i])]))
  ELSE Sum(s, [i \in cmps(s) |->
         s.zs[i] * (x["Cpl_integrals_pure"][i] - x["Hvaps_T_ref"][i])
         + s.zs[i] * (s.P - x["Psats_T_ref"][i])
           * (x["Vms_sat_T_ref"][i] - T_REF_IG * x["dVms_sat_dT_T_ref"][i])])

GibbsExcessLiquid_H(s) ==
  IF Cached(s, "_H") THEN Ok(s, Get(s, "_H"), 0)
  ELSE IF NoState(s, {"T", "P", "zs"}) THEN Raise(s, "AttributeError", 0)
  ELSE Bind(call_all(s, GibbsExcessLiquid_H_reads(s)), LAMBDA c :
         IF c.err # "" THEN Raise(c.s, c.err, c.calls)
         ELSE Bind(IF s.ge.P_DEPENDENT_H_LIQ /\ s.ge.use_IG_Cp /\ s.ge.use_Tait
                     THEN dH_dP_integrals_Tait(c.s)
                     ELSE Ok(c.s, <<>>, 0), LAMBDA t :
                IF t.err # "" THEN Raise(t.s, t.err, c.calls + t.calls)
                ELSE Bind(GibbsExcessLiquid_H_sum(s, c.vals, t.v)
                          + GE_HE(s.ge.GibbsExcessModel), LAMBDA Hv :
                       Ok(Put(t.s, "_H", Hv), Hv, c.calls + t.calls))))

\* The accessors S reads, in the order it calls them.
GibbsExcessLiquid_S_reads(s) ==
  <<"log_zs", "Cpig_integrals_over_T_pure", "Psats", "Vms_sat", "dPsats_dT">>
  \o (IF ~s.ge.P_DEPENDENT_H_LIQ THEN <<"Hvaps">>
      ELSE IF s.ge.use_IG_Cp THEN <<"dVms_sat_dT">>
      ELSE <<"dVms_sat_dT", "Hvaps_T_ref", "Psats_T_ref", "Cpl_integrals_over_T_pure",
             "dVms_sat_dT_T_ref", "Vms_sat_T_ref">>)

\* S before the excess term, from the lists x.
GibbsExcessLiquid_S_sum(s, x) ==
  R * Sum(s, [i \in cmps(s) |-> 0 - s.zs[i] * x["log_zs"][i]])
  + (IF ~s.ge.P_DEPENDENT_H_LIQ
       THEN Sum(s, [i \in cmps(s) |->
              s.zs[i] * (x["Cpig_integrals_over_T_pure"][i]
                         - x["Hvaps"][i] \div s.T
                         - R * log(s.P \div P_REF_IG))])
     ELSE IF s.ge.use_IG_Cp
       THEN Sum(s, [i \in cmps(s) |->
              (x["Cpig_integrals_over_T_pure"][i]
               - x["dPsats_dT"][i] * ((R * s.T) \div x["Psats"][i] - x["Vms_sat"][i])
               - R * log(x["Psats"][i] \div P_REF_IG)
               - Max2(0, s.P - x["Psats"][i]) * x["dVms_sat_dT"][i])
              * s.zs[i]])
     ELSE Sum(s, [i \in cmps(s) |->
            (x["Cpl_integrals_over_T_pure"][i]
             - x["Hvaps_T_ref"][i] \div T_REF_IG
             - R * log(x["Psats_T_ref"][i] \div P_REF_IG)
             - (s.P - x["Psats_T_ref"][i]) * x["dVms_sat_dT_T_ref"][i])
            * s.zs[i]]))

\* self._S = S + self.GibbsExcessModel.SE(); return S
GibbsExcessLiquid_S(s) ==
  IF Cached(s, "_S") THEN Ok(s, Get(s, "_S"), 0)
  ELSE IF NoState(s, {"T", "P", "zs", "cmps"}) THEN Raise(s, "AttributeError", 0)
  ELSE Bind(call_all(s, GibbsExcessLiquid_S_reads(s)), LAMBDA c :
         IF c.err # "" THEN Raise(c.s, c.err, c.calls)
         ELSE Bind(GibbsExcessLiquid_S_sum(s, c.vals), LAMBDA Sv :
                Ok(Put(c.s, "_S", Sv + GE_SE(s.ge.GibbsExcessModel)), Sv, c.calls)))

\* The accessors Cp reads, in the order it calls them.
GibbsExcessLiquid_Cp_reads(s) ==
  IF s.ge.P_DEPENDENT_H_LIQ
    THEN <<"dHvaps_dT", "Cpigs_pure", "d2Vms_sat_dT2", "dVms_sat_dT", "Vms_sat",
           "Psats", "dPsats_dT">>
    ELSE <<"dHvaps_dT", "Cpigs_pure">>

\* Cp before the excess term, from the lists x.
GibbsExcessLiquid_Cp_sum(s, x) ==
  IF s.ge.P_DEPENDENT_H_LIQ
    THEN Sum(s, [i \in cmps(s) |->
           s.zs[i] * (x["Cpigs_pure"][i] - x["dHvaps_dT"][i])
           + s.zs[i] * ((0 - s.T) * (s.P - x["Psats"][i]) * x["d2Vms_sat_dT2"][i]
                        + (s.T * x["dVms_sat_dT"][i] - x["Vms_sat"][i])
                          * x["dPsats_dT"][i])])
    ELSE Sum(s, [i \in cmps(s) |->
           s.zs[i] * (x["Cpigs_pure"][i] - x["dHvaps_dT"][i])])

GibbsExcessLiquid_Cp(s) ==
  IF Cached(s, "_Cp") THEN Ok(s, Get(s, "_Cp"), 0)
  ELSE IF NoState(s, {"T", "P", "zs"}) THEN Raise(s, "AttributeError", 0)
  ELSE Bind(call_all(s, GibbsExcessLiquid_Cp_reads(s)), LAMBDA c :
         IF c.err # "" THEN Raise(c.s, c.err, c.calls)
         ELSE Bind(GibbsExcessLiquid_Cp_sum(s, c.vals)
                   + GE_CpE(s.ge.GibbsExcessModel), LAMBDA Cpv :
                Ok(Put(c.s, "_Cp", Cpv), Cpv, c.calls)))

\* bulk() - ideal(): ideal is the result of the second call, made on the
\* object the first call left behind, and is not made when the first raised.
GibbsExcessLiquid_departure(bulk, ideal) ==
  IF bulk.err # "" THEN bulk
  ELSE IF ideal.err # "" THEN Raise(ideal.s, ideal.err, bulk.calls + ideal.calls)
  ELSE Ok(ideal.s, bulk.v - ideal.v, bulk.calls + ideal.calls)

GibbsExcessLiquid_H_dep(s) ==
  Bind(GibbsExcessLiquid_H(s), LAMBDA b :
    Bind(H_ideal_gas(b.s), LAMBDA i : GibbsExcessLiquid_departure(b, i)))

\* The second operand read by S_dep is H_ideal_gas, as in the source.
GibbsExcessLiquid_S_dep(s) ==
  Bind(GibbsExcessLiquid_S(s), LAMBDA b :
    Bind(H_ideal_gas(b.s), LAMBDA i : GibbsExcessLiquid_departure(b, i)))

GibbsExcessLiquid_Cp_dep(s) ==
  Bind(GibbsExcessLiquid_Cp(s), LAMBDA b :
    Bind(Cp_ideal_gas(b.s), LAMBDA i : GibbsExcessLiquid_departure(b, i)))

GibbsExcessLiquid_V(s) ==
  IF Cached(s, "_V") THEN Ok(s, Get(s, "_V"), 0)
  ELSE IF NoState(s, {"zs"}) THEN Raise(s, "AttributeError", 0)
  ELSE Bind(Vms_sat(s), LAMBDA r :
         IF r.err # "" THEN r
         ELSE Bind(Sum(s, [i \in cmps(s) |-> s.zs[i] * r.v[i]]), LAMBDA Vv :
                Ok(Put(r.s, "_V", Vv), Vv, r.calls)))

\* self.VolumeLiquidMixture is never assigned
GibbsExcessLiquid_dP_dV(s) == Raise(s, "AttributeError", 0)

----------------------------------------------------------------------------
(* Construction and state transforms                                       *)

NoPhase == [kind |-> "none"]

NoGE ==
  [Psats_locked |-> FALSE, Vms_sat_locked |-> FALSE, Hvap_locked |-> FALSE,
   Cpls_locked |-> FALSE, HeatCapacityLiquids |-> FALSE, P_DEPENDENT_H_LIQ |-> TRUE,
   use_IG_Cp |-> TRUE, use_Tait |-> FALSE, Hvaps_T_ref_attr |-> FALSE,
   GibbsExcessModel |-> GE_object(TRUE, 0, <<>>, 1),
   VaporPressures |-> <<>>, henry_components |-> <<>>, use_phis_sat |-> FALSE]

\* all(i.locked for i in objects)
all_locked(objects) == \A i \in 1..Len(objects) : objects[i]

\* cls.__new__(cls): an object with no instance attribute
blank(kind) ==
  [kind |-> kind, missing |-> {"T", "P", "zs", "N", "cmps", "eos_mix"}, none |-> {},
   T |-> 0, P |-> 0, zs |-> <<>>, N |-> 0, eos_mix |-> {},
   HeatCapacityGases |-> <<>>, Cpgs_locked |-> FALSE, ge |-> NoGE,
   cache |-> EmptyCache]

with_TP_zs(o, T, P, zs) ==
  [o EXCEPT !.T = T, !.P = P, !.zs = zs, !.missing = @ \ {"T", "P", "zs"}]

IdealGas__init__(HeatCapacityGases) ==
  [blank("IdealGas") EXCEPT !.HeatCapacityGases = HeatCapacityGases,
                            !.N = Len(HeatCapacityGases),
                            !.missing = @ \ {"N"}]

IdealGas_to_TP_zs(self, T, P, zs) ==
  [with_TP_zs(blank(self.kind), T, P, zs) EXCEPT
     !.N = Len(zs), !.missing = @ \ {"N", "cmps"},
     !.HeatCapacityGases = self.HeatCapacityGases]

\* state: <<>> when T, P, zs are not all given, else <<[T, P, zs, roots]>> with
\* roots the volume roots the eos_class solver finds there
EOSGas__init__(kind, HeatCapacityGases, state) ==
  LET o == [blank(kind) EXCEPT !.HeatCapacityGases = HeatCapacityGases,
                               !.N = Len(HeatCapacityGases),
                               !.missing = @ \ {"N", "cmps"},
                               !.Cpgs_locked = all_locked(HeatCapacityGases)]
  IN IF state = <<>> THEN o
     ELSE [with_TP_zs(o, state[1].T, state[1].P, state[1].zs) EXCEPT
             !.eos_mix = state[1].roots, !.missing = @ \ {"eos_mix"}]

\* eos_mix.to_TP_zs_fast(..., only_g=True) keeps only the named root when the
\* solver finds it; eos_class(...) keeps every root found.
EOS_new_eos_mix(self, roots) ==
  LET only == BranchOf(class_source(self)["to_TP_zs"][1])
  IN IF Has(self, "eos_mix") /\ only \in roots THEN {only} ELSE roots

EOSGas_to_TP_zs(self, T, P, zs, roots) ==
  [with_TP_zs(blank(self.kind), T, P, zs) EXCEPT
     !.eos_mix = EOS_new_eos_mix(self, roots),
     !.HeatCapacityGases = self.HeatCapacityGases,
     !.Cpgs_locked = self.Cpgs_locked,
     !.N = self.N,
     !.missing = (@ \ {"eos_mix"}) \ ({"N", "cmps"} \ self.missing)]

\* T, P, V are <<>> for None or <<value>>; solved is the state the solver
\* reports: [T, P, roots].
EOSGas_to_zs_TPV(self, zs, T, P, Varg, solved) ==
  LET base == [blank(self.kind) EXCEPT
                 !.zs = zs,
                 !.HeatCapacityGases = self.HeatCapacityGases,
                 !.Cpgs_locked = self.Cpgs_locked,
                 !.N = self.N,
                 !.missing = (@ \ {"zs", "T", "P"}) \ ({"N", "cmps"} \ self.missing)]
      with_eos(o, roots) == [o EXCEPT !.eos_mix = roots, !.missing = @ \ {"eos_mix"}]
  IN IF T # <<>>
       THEN IF P # <<>>
              THEN Ok([with_eos(base, EOS_new_eos_mix(self, solved.roots)) EXCEPT
                         !.T = T[1], !.P = P[1]], 0, 0)
            ELSE IF Varg # <<>>
              THEN Ok([with_eos(base, solved.roots) EXCEPT !.T = T[1], !.P = solved.P],
                      0, 0)
            ELSE Ok([base EXCEPT !.T = T[1], !.none = {"P"}], 0, 0)
     ELSE IF P # <<>> /\ Varg # <<>>
       THEN Ok([with_eos(base, solved.roots) EXCEPT !.T = solved.T, !.P = P[1]], 0, 0)
     ELSE Raise(self, "ValueError", 0)

\* VaporPressures, HeatCapacityGases, ... are N objects, all locked or none;
\* state is <<>> or <<[T, P, zs]>>.
GibbsExcessLiquid__init__(kind, locked, GibbsExcessModel, HeatCapacityLiquids, use_Tait, use_IG_Cp, state) ==
  LET objects == [i \in 1..N |-> locked]
      o == [blank(kind) EXCEPT
              !.N = N, !.missing = @ \ {"N", "cmps"},
              !.HeatCapacityGases = objects,
              !.Cpgs_locked = all_locked(objects),
              !.ge = [Psats_locked |-> all_locked(objects),
                      Vms_sat_locked |-> all_locked(objects),
                      Hvap_locked |-> all_locked(objects),
                      Cpls_locked |-> HeatCapacityLiquids /\ all_locked(objects),
                      HeatCapacityLiquids |-> HeatCapacityLiquids,
                      P_DEPENDENT_H_LIQ |-> TRUE,
                      use_IG_Cp |-> use_IG_Cp,
                      use_Tait |-> use_Tait,
                      Hvaps_T_ref_attr |-> HeatCapacityLiquids,
                      GibbsExcessModel |-> GibbsExcessModel,
                      VaporPressures |-> [i \in 1..N |-> VaporPressure(locked)],
                      henry_components |-> [i \in 1..N |-> FALSE],
                      use_phis_sat |-> FALSE]]
  IN IF state = <<>> THEN o ELSE with_TP_zs(o, state[1].T, state[1].P, state[1].zs)

\* super().__init__ is called without GibbsExcessModel, HeatCapacityLiquids,
\* use_Tait or use_IG_Cp: the defaults apply.
GibbsExcessSolid__init__(locked, state) ==
  GibbsExcessLiquid__init__("GibbsExcessSolid", locked,
                            GE_object(TRUE, T_REF_IG, <<>>, 1),
                            FALSE, FALSE, TRUE, state)

\* The copy without the guard statement: _Psats goes over when self has it.
T_equal_copy_Psats(self, o, T_equal) ==
  IF T_equal /\ Cached(self, "_Psats") THEN Put(o, "_Psats", Get(self, "_Psats")) ELSE o

\* try: if T_equal: try: 1/0; new._Psats = self._Psats; except: pass
\* 1/0 raises ZeroDivisionError before the assignment, which never runs.
T_equal_copy(self, o, T_equal) ==
  LET ZeroDivisionError == TRUE
  IN IF T_equal /\ ~ZeroDivisionError /\ Cached(self, "_Psats")
       THEN Put(o, "_Psats", Get(self, "_Psats"))
     ELSE o

\* same_zs: the caller passes the very list object self.zs
GibbsExcessLiquid_to_TP_zs(self, T, P, zs, same_zs) ==
  LET T_equal == Has(self, "T") /\ T = self.T
  IN T_equal_copy(self,
       [with_TP_zs(blank(self.kind), T, P, zs) EXCEPT
          !.N = self.N, !.missing = @ \ {"N", "cmps"},
          !.HeatCapacityGases = self.HeatCapacityGases,
          !.Cpgs_locked = self.Cpgs_locked,
          !.ge = [self.ge EXCEPT
                    !.Hvaps_T_ref_attr = FALSE,
                    !.GibbsExcessModel =
                       IF T_equal /\ same_zs THEN self.ge.GibbsExcessModel
                       ELSE to_T_xs(self.ge.GibbsExcessModel, T, zs)]],
       T_equal)

\* A transform that also rebinds the receiver's own state.
to_TP_zs_inplace(self, T, P, zs, same_zs, ext) ==
  LET o == IF self.kind = "IdealGas" THEN IdealGas_to_TP_zs(self, T, P, zs)
           ELSE IF self.kind \in EOSKinds THEN EOSGas_to_TP_zs(self, T, P, zs, ext.roots)
           ELSE GibbsExcessLiquid_to_TP_zs(self, T, P, zs, same_zs)
  IN [self |-> with_TP_zs(self, T, P, zs), new |-> o]

\* obj.to_TP_zs(T, P, zs): the receiver after the call and the object returned.
\* ext: what the external solvers report during the call ([T, P, roots])
to_TP_zs(self, T, P, zs, same_zs, ext) ==
  [self |-> self,
   new |-> IF self.kind = "IdealGas" THEN IdealGas_to_TP_zs(self, T, P, zs)
           ELSE IF self.kind \in EOSKinds THEN EOSGas_to_TP_zs(self, T, P, zs, ext.roots)
           ELSE GibbsExcessLiquid_to_TP_zs(self, T, P, zs, same_zs)]

----------------------------------------------------------------------------
(* Accessors by variant                                                    *)

no_attribute(s) == Raise(s, "AttributeError", 0)

H(s) ==
  IF s.kind \in EOSKinds THEN EOS_H(s)
  ELSE IF s.kind \in GEKinds THEN GibbsExcessLiquid_H(s)
  ELSE no_attribute(s)

S(s) ==
  IF s.kind \in EOSKinds THEN EOS_S(s)
  ELSE IF s.kind \in GEKinds THEN GibbsExcessLiquid_S(s)
  ELSE no_attribute(s)

Cp(s) ==
  IF s.kind \in EOSKinds THEN EOS_Cp(s)
  ELSE IF s.kind \in GEKinds THEN GibbsExcessLiquid_Cp(s)
  ELSE no_attribute(s)

V(s) ==
  IF s.kind \in EOSKinds THEN EOS_primitive(s, "V")
  ELSE IF s.kind \in GEKinds THEN GibbsExcessLiquid_V(s)
  ELSE no_attribute(s)

dP_dV(s) ==
  IF s.kind \in EOSKinds THEN EOS_primitive(s, "dP_dV")
  ELSE IF s.kind \in GEKinds THEN GibbsExcessLiquid_dP_dV(s)
  ELSE no_attribute(s)

\* dP_dT as read by Phase.Cv on EOSGas / EOSLiquid and IdealGas
dP_dT(s) ==
  IF s.kind \in EOSKinds THEN EOS_primitive(s, "dP_dT") ELSE no_attribute(s)

\* thermo.utils.Cp_minus_Cv: -T*dP_dT**2/dP_dV
Cp_minus_Cv(T, dP_dT_, dP_dV_) == (0 - T * dP_dT_ * dP_dT_) \div dP_dV_

\* Phase.Cv (330-334)
Cv(s) ==
  IF NoState(s, {"T"}) THEN no_attribute(s)
  ELSE Bind(dP_dT(s), LAMBDA a :
    IF a.err # "" THEN a
    ELSE Bind(dP_dV(a.s), LAMBDA b :
      IF b.err # "" THEN b
      ELSE IF IsNone(s, "T") THEN Raise(b.s, "TypeError", 0)
      ELSE Bind(Cp(b.s), LAMBDA c :
        IF c.err # "" THEN c
        ELSE Ok(c.s, c.v - Cp_minus_Cv(s.T, a.v, b.v), c.calls))))

\* Phase.Z (373-374): self.P*self.V()/(R*self.T)
Z(s) ==
  IF NoState(s, {"P"}) THEN no_attribute(s)
  ELSE Bind(V(s), LAMBDA v :
    IF v.err # "" THEN v
    ELSE IF IsNone(s, "P") THEN Raise(v.s, "TypeError", v.calls)
    ELSE IF NoState(s, {"T"}) THEN Raise(v.s, "AttributeError", v.calls)
    ELSE IF IsNone(s, "T") THEN Raise(v.s, "TypeError", v.calls)
    ELSE Ok(v.s, (s.P * v.v) \div (R * s.T), v.calls))

\* A slip: the composition is returned in place of N zeros.
IdealGas_zeros_zs(s) ==
  IF NoState(s, {"N", "zs"}) THEN no_attribute(s) ELSE Ok(s, s.zs, 0)

\* IdealGas.lnphis, dlnphis_dT, dlnphis_dP: [0.0]*self.N
IdealGas_zeros(s) ==
  IF NoState(s, {"N"}) THEN no_attribute(s) ELSE Ok(s, [i \in 1..s.N |-> 0], 0)

\* EOSGas.lnphis / IdealGas.lnphis, as read by Phase.phis on those variants
lnphis(s) ==
  IF s.kind \in EOSKinds THEN EOS_primitive_list(s, "lnphis") ELSE IdealGas_zeros(s)

\* Phase.phis
phis(s) ==
  Bind(lnphis(s), LAMBDA r :
    IF r.err # "" THEN r ELSE Ok(r.s, [i \in DOMAIN r.v |-> exp(r.v[i])], r.calls))

\* Phase.G, U, A (208-218)
G(s) ==
  Bind(H(s), LAMBDA h :
    IF h.err # "" THEN h
    ELSE IF NoState(s, {"T"}) THEN Raise(h.s, "AttributeError", h.calls)
    ELSE Bind(S(h.s), LAMBDA e :
           IF e.err # "" THEN Raise(e.s, e.err, h.calls + e.calls)
           ELSE Ok(e.s, h.v - s.T * e.v, h.calls + e.calls)))

U(s) ==
  Bind(H(s), LAMBDA h :
    IF h.err # "" THEN h
    ELSE IF NoState(s, {"P"}) THEN Raise(h.s, "AttributeError", h.calls)
    ELSE Bind(V(h.s), LAMBDA v :
           IF v.err # "" THEN Raise(v.s, v.err, h.calls + v.calls)
           ELSE IF IsNone(s, "P") THEN Raise(v.s, "TypeError", h.calls + v.calls)
           ELSE Ok(v.s, h.v - s.P * v.v, h.calls + v.calls)))

A(s) ==
  Bind(U(s), LAMBDA u :
    IF u.err # "" THEN u
    ELSE IF NoState(s, {"T"}) THEN Raise(u.s, "AttributeError", u.calls)
    ELSE Bind(S(u.s), LAMBDA e :
           IF e.err # "" THEN Raise(e.s, e.err, u.calls + e.calls)
           ELSE Ok(e.s, u.v - s.T * e.v, u.calls + e.calls)))

\* unit composition vector of component i
pure_zs(n, i) == [j \in 1..n |-> IF j = i THEN 1 ELSE 0]

\* Phase.gammas (352-366): ratio to the pure-component fugacity coefficients,
\* each from a transformed copy of the object
Phase_gammas(s, ext) ==
  Bind(phis(s), LAMBDA r :
    IF r.err # "" THEN r
    ELSE IF NoState(s, {"T", "P", "zs", "cmps", "N"})
      THEN Raise(r.s, "AttributeError", r.calls)
    ELSE Bind([i \in cmps(s) |->
                 phis(to_TP_zs(s, s.T, s.P, pure_zs(s.N, i), FALSE, ext).new)],
              LAMBDA pure :
           IF \E i \in cmps(s) : pure[i].err # ""
             THEN Raise(r.s, "AttributeError", r.calls)
             ELSE Ok(r.s, [i \in cmps(s) |-> r.v[i] \div pure[i].v[i]], r.calls)))

\* phi of pure component i on root b of eos_mix.pures()
pure_phi(s, i, b) == i + (IF b = "g" THEN 2 ELSE 1) + s.T

EOS_gammas(s) ==
  Bind(phis(s), LAMBDA r :
    IF r.err # "" THEN r
    ELSE Bind(selected_root(s, "gammas"), LAMBDA b :
           IF b = "" \/ NoState(s, {"cmps"}) THEN Raise(r.s, "AttributeError", r.calls)
           ELSE Ok(r.s, [i \in cmps(s) |-> r.v[i] \div pure_phi(s, i, b)], r.calls)))

gammas(s, ext) ==
  IF s.kind \in EOSKinds THEN EOS_gammas(s)
  ELSE IF s.kind \in GEKinds THEN GibbsExcessLiquid_gammas(s)
  ELSE Phase_gammas(s, ext)

\* Phase.chemical_potential (337-344): the Jacobian of tot*G_reactive of
\* transformed copies; Hfs and Sfs are None on every object built here, so
\* H_reactive fails once H() has returned.
chemical_potential(s, ext) ==
  IF NoState(s, {"zs", "T", "P"}) THEN no_attribute(s)
  ELSE Bind(H(to_TP_zs(s, s.T, s.P, s.zs, FALSE, ext).new), LAMBDA h :
         IF h.err # "" THEN Raise(s, h.err, h.calls)
         ELSE Raise(s, "TypeError", h.calls))

Tmc_guess == 1   \* Tmc = 300.0, in model units
Pmc_guess == 2   \* Pmc = 1e6, in model units

\* Phase.mechanical_critical_point (889-921) on IdealGas and GibbsExcessLiquid:
\* no Tcs, Pcs or eos_mix, so the fixed guess is used; the first trial object
\* is stored in the global `new`, and dP_drho fails on it.
\* Returns [r |-> result, new |-> the global after the call].
Phase_mechanical_critical_point(s, global, ext) ==
  IF NoState(s, {"zs"}) THEN [r |-> no_attribute(s), new |-> global]
  ELSE Bind(V(to_TP_zs(s, Tmc_guess, Pmc_guess, s.zs, TRUE, ext).new), LAMBDA v :
         Bind(IF v.err # "" THEN v ELSE dP_dV(v.s), LAMBDA d :
           [r |-> Raise(s, d.err, v.calls + d.calls), new |-> d.s]))

\* A solve that leaves the receiver at the critical state it found.
EOS_mechanical_critical_point_inplace(s, ext) ==
  IF NoState(s, {"zs", "eos_mix"}) THEN no_attribute(s)
  ELSE Bind([s EXCEPT !.T = ext.T, !.P = ext.P, !.eos_mix = ext.roots], LAMBDA at :
         Bind(selected_root(at, "mechanical_critical_point"), LAMBDA b :
           IF b = "" THEN Raise(at, "AttributeError", 0)
           ELSE Ok(at, <<ext.T, ext.P, eos_value(at, "V", b)>>, 0)))

\* EOSGas.mechanical_critical_point (1437-1447); ext is the object returned by
\* eos_mix.to_mechanical_critical_point()
EOS_mechanical_critical_point(s, ext) ==
  IF NoState(s, {"zs", "eos_mix"}) THEN no_attribute(s)
  ELSE Bind([s EXCEPT !.T = ext.T, !.P = ext.P, !.eos_mix = ext.roots], LAMBDA at :
         Bind(Put(Put(s, "_mechanical_critical_T", ext.T),
                  "_mechanical_critical_P", ext.P), LAMBDA s1 :
           Bind(selected_root(at, "mechanical_critical_point"), LAMBDA b :
             IF b = "" THEN Raise(s1, "AttributeError", 0)
             ELSE Bind(eos_value(at, "V", b), LAMBDA Vmc :
                    Ok(Put(s1, "_mechanical_critical_V", Vmc),
                       <<ext.T, ext.P, Vmc>>, 0)))))

mechanical_critical_point(s, global, ext) ==
  IF s.kind \in EOSKinds
    THEN [r |-> EOS_mechanical_critical_point(s, ext), new |-> global]
    ELSE Phase_mechanical_critical_point(s, global, ext)

\* Phase.Tmc, Pmc, Vmc (923-942)
mechanical_critical(s, field, global, ext) ==
  IF Cached(s, field) THEN [r |-> Ok(s, Get(s, field), 0), new |-> global]
  ELSE Bind(mechanical_critical_point(s, global, ext), LAMBDA m :
         IF m.r.err # "" THEN m
         ELSE [r |-> Ok(m.r.s, Get(m.r.s, field), m.r.calls), new |-> m.new])

\* further per-component lists of GibbsExcessLiquid
PureListAccessors ==
  {"d2Psats_dT2", "dHvaps_dT", "Hvaps_T_ref", "Vms_sat_T_ref", "dVms_sat_dT_T_ref",
   "phis_sat", "dphis_sat_dT"}

EOSPrimitives ==
  {"V", "dP_dT", "dP_dV", "d2P_dT2", "d2P_dV2", "d2P_dTdV", "d2T_dV2", "d2V_dT2",
   "H_dep", "S_dep", "Cp_dep", "dH_dP"}
EOSPrimitiveLists == {"lnphis", "dlnphis_dT", "dlnphis_dP"}

EOS_accessor(s, acc) ==
  IF acc \in EOSPrimitives THEN EOS_primitive(s, acc)
  ELSE IF acc \in EOSPrimitiveLists THEN EOS_primitive_list(s, acc)
  ELSE IF acc = "dS_dT" THEN EOS_dS_dT(s)
  ELSE IF acc = "dS_dP" THEN EOS_dS_dP(s)
  ELSE no_attribute(s)

GE_accessor(s, acc) ==
  IF acc = "H_dep" THEN GibbsExcessLiquid_H_dep(s)
  ELSE IF acc = "S_dep" THEN GibbsExcessLiquid_S_dep(s)
  ELSE IF acc = "Cp_dep" THEN GibbsExcessLiquid_Cp_dep(s)
  ELSE IF acc = "V" THEN GibbsExcessLiquid_V(s)
  ELSE IF acc = "dP_dV" THEN GibbsExcessLiquid_dP_dV(s)
  ELSE IF acc \in {"Psats", "dPsats_dT", "Vms_sat", "Hvaps"} \cup PureListAccessors
    THEN GE_list(s, acc)
  ELSE no_attribute(s)

IdealGas_accessor(s, acc) ==
  IF acc \in EOSPrimitiveLists THEN IdealGas_zeros(s) ELSE no_attribute(s)

BulkAccessors == {"H", "S", "Cp", "G", "U", "A"}
IdealAccessors == {"H_ideal_gas", "S_ideal_gas", "Cp_ideal_gas", "Cpigs_pure"}
SolverAccessors ==
  {"gammas", "chemical_potential", "mechanical_critical_point", "Tmc", "Pmc", "Vmc"}

\* The accessors exercised on each variant.
AccessorsOf(kind) ==
  BulkAccessors \cup IdealAccessors \cup SolverAccessors \cup
  (IF kind \in EOSKinds
     THEN EOSPrimitives \cup EOSPrimitiveLists \cup {"dS_dT", "dS_dP"}
   ELSE IF kind \in GEKinds
     THEN {"H_dep", "S_dep", "Cp_dep", "V", "dP_dV", "Psats", "dPsats_dT", "Vms_sat", "Hvaps"}
            \cup PureListAccessors
   ELSE {"V", "Z", "Cv", "H_dep", "S_dep", "log_zs"} \cup EOSPrimitiveLists)

\* obj.acc(): [r |-> result, new |-> the global `new` after the call]
Accessor(s, acc, global, ext) ==
  IF acc = "mechanical_critical_point" THEN mechanical_critical_point(s, global, ext)
  ELSE IF acc = "Tmc" THEN mechanical_critical(s, "_mechanical_critical_T", global, ext)
  ELSE IF acc = "Pmc" THEN mechanical_critical(s, "_mechanical_critical_P", global, ext)
  ELSE IF acc = "Vmc" THEN mechanical_critical(s, "_mechanical_critical_V", global, ext)
  ELSE [new |-> global,
        r |-> IF acc = "H" THEN H(s)
              ELSE IF acc = "S" THEN S(s)
              ELSE IF acc = "Cp" THEN Cp(s)
              ELSE IF acc = "G" THEN G(s)
              ELSE IF acc = "U" THEN U(s)
              ELSE IF acc = "A" THEN A(s)
              ELSE IF acc = "Z" THEN Z(s)
              ELSE IF acc = "Cv" THEN Cv(s)
              ELSE IF acc = "log_zs" THEN log_zs(s)
              ELSE IF acc = "H_ideal_gas" THEN H_ideal_gas(s)
              ELSE IF acc = "S_ideal_gas" THEN S_ideal_gas(s)
              ELSE IF acc = "Cp_ideal_gas" THEN Cp_ideal_gas(s)
              ELSE IF acc = "Cpigs_pure" THEN Cpigs_pure(s)
              ELSE IF acc = "gammas" THEN gammas(s, ext)
              ELSE IF acc = "chemical_potential" THEN chemical_potential(s, ext)
              ELSE IF s.kind \in EOSKinds THEN EOS_accessor(s, acc)
              ELSE IF s.kind \in GEKinds THEN GE_accessor(s, acc)
              ELSE IdealGas_accessor(s, acc)]

----------------------------------------------------------------------------
(* Inputs                                                                  *)

Roots == SUBSET {"g", "l"}
StatePoints ==
  {[T |-> 1, P |-> 1, zs |-> pure_zs(N, 1)],
   [T |-> MaxT, P |-> MaxP, zs |-> [i \in 1..N |-> MaxZ]]}
NoExt == [T |-> 1, P |-> 1, roots |-> {"g"}]
SolverOutcomes == {[T |-> MaxT, P |-> MaxP, roots |-> r] : r \in Roots}
Optional(values) == {<<>>} \cup {<<v>> : v \in values}

\* External solver outcomes that matter to obj.acc()
ExtOf(kind, acc) ==
  IF kind \in EOSKinds
     /\ acc \in {"chemical_potential", "mechanical_critical_point", "Tmc", "Pmc", "Vmc"}
    THEN SolverOutcomes ELSE {NoExt}

\* the last operation: receiver, accessor, external outcome, value returned or
\* exception raised, correlation-object calls made, number of T, P, V given
\* no mechanical_critical_point call in progress: where each thread is, which
\* thread's trial object the module global `new` holds, and whose trial object
\* each thread's residual evaluation read
NoSolve ==
  [pc |-> [t \in PhaseIds |-> "idle"], owner |-> 0, read |-> [t \in PhaseIds |-> 0],
   x |-> <<>>]

NoRet == [op |-> "none", self |-> 0, acc |-> "", ext |-> NoExt, val |-> 0, err |-> "",
          calls |-> 0, given |-> 0]

----------------------------------------------------------------------------
(* Operations                                                              *)

\* exec(build_EOSLiquid()) at import (1465-1469)
exec_build_EOSLiquid ==
  [m \in EOSMethods |->
     <<build_EOSLiquid(EOSGas_source[m][1]), build_EOSLiquid(EOSGas_source[m][2])>>]

Init ==
  /\ EOSLiquid_source = <<>>
  /\ imported = FALSE
  /\ phases = [id \in PhaseIds |-> NoPhase]
  /\ new = NoPhase
  /\ ret = NoRet
  /\ nops = 0
  /\ fits = [i \in 1..N |-> best_fit(i, 20)]
  /\ solve = NoSolve

ImportModule ==
  /\ ~imported
  /\ imported' = TRUE
  /\ EOSLiquid_source' = exec_build_EOSLiquid
  /\ UNCHANGED <<phases, new, ret, nops, fits, solve>>

Constructed(o) ==
  /\ imported
  /\ nops < MaxOps
  /\ phases[1] = NoPhase
  /\ phases' = [phases EXCEPT ![1] = o]
  /\ ret' = [NoRet EXCEPT !.op = "construct", !.self = 1]
  /\ nops' = nops + 1
  /\ UNCHANGED <<EOSLiquid_source, imported, new, fits, solve>>

ConstructIdealGas ==
  \E locked \in BOOLEAN : Constructed(IdealGas__init__([i \in 1..N |-> locked]))

ConstructEOS ==
  \E kind \in EOSKinds, locked \in BOOLEAN, p \in Optional(StatePoints),
     roots \in Roots :
    /\ p = <<>> => roots = {"g"}
    /\ Constructed(EOSGas__init__(kind, [i \in 1..N |-> locked],
                     IF p = <<>> THEN <<>>
                     ELSE <<[T |-> p[1].T, P |-> p[1].P, zs |-> p[1].zs,
                             roots |-> roots]>>))

ConstructGibbsExcess ==
  \E locked \in BOOLEAN, ideal \in BOOLEAN, HeatCapacityLiquids \in BOOLEAN,
     use_IG_Cp \in BOOLEAN, P_DEPENDENT_H_LIQ \in BOOLEAN, use_Tait \in BOOLEAN,
     p \in Optional(StatePoints) :
    /\ use_Tait => (use_IG_Cp /\ P_DEPENDENT_H_LIQ /\ ~HeatCapacityLiquids /\ ideal)
    /\ ~P_DEPENDENT_H_LIQ => (use_IG_Cp /\ ~HeatCapacityLiquids)
    /\ HeatCapacityLiquids = ~use_IG_Cp
    \* P_DEPENDENT_H_LIQ is a class attribute the caller may reset
    /\ Constructed([GibbsExcessLiquid__init__("GibbsExcessLiquid", locked,
                       GE_object(ideal, T_REF_IG, pure_zs(N, 1), 1),
                       HeatCapacityLiquids, use_Tait, use_IG_Cp, p)
                    EXCEPT !.ge.P_DEPENDENT_H_LIQ = P_DEPENDENT_H_LIQ])

ConstructGibbsExcessSolid ==
  \E locked \in BOOLEAN, p \in Optional(StatePoints) :
    Constructed(GibbsExcessSolid__init__(locked, p))

\* two objects hold the same GibbsExcessModel object
shared_model(a, b) ==
  /\ a # NoPhase /\ b # NoPhase
  /\ a.kind \in GEKinds /\ b.kind \in GEKinds
  /\ a.ge.GibbsExcessModel.oid = b.ge.GibbsExcessModel.oid

\* the heap once object id has become s: what the call stored in a model
\* object is there for every object that holds it
heap_store(heap, id, s) ==
  [heap EXCEPT ![id] = s,
               ![3 - id] = IF shared_model(heap[id], @)
                             THEN [@ EXCEPT !.ge.GibbsExcessModel = s.ge.GibbsExcessModel]
                             ELSE @]

Call(id, acc, ext) ==
  /\ imported
  /\ nops < MaxOps
  /\ phases[id] # NoPhase
  /\ acc \in AccessorsOf(phases[id].kind)
  /\ ext \in ExtOf(phases[id].kind, acc)
  /\ \E a \in {Accessor(phases[id], acc, new, ext)} :
        /\ phases' = heap_store(phases, id, a.r.s)
        /\ new' = a.new
        /\ ret' = [NoRet EXCEPT !.op = "call", !.self = id, !.acc = acc, !.ext = ext,
                                !.val = a.r.v, !.err = a.r.err, !.calls = a.r.calls]
  /\ nops' = nops + 1
  /\ UNCHANGED <<EOSLiquid_source, imported, fits, solve>>

\* other = obj.to_TP_zs(T, P, zs); the result takes the other slot of the heap.
\* same_zs: the caller passes the object's own composition list (and pressure).
Transform(id, p, same_zs, roots) ==
  /\ imported
  /\ nops < MaxOps
  /\ phases[id] # NoPhase
  /\ same_zs => Has(phases[id], "zs")
  /\ (phases[id].kind \notin EOSKinds) => roots = {"g"}
  /\ \E t \in {IF same_zs
                 THEN to_TP_zs(phases[id], p.T, phases[id].P, phases[id].zs, TRUE,
                               [NoExt EXCEPT !.roots = roots])
                 ELSE to_TP_zs(phases[id], p.T, p.P, p.zs, FALSE,
                               [NoExt EXCEPT !.roots = roots])} :
       phases' = [phases EXCEPT ![id] = t.self, ![3 - id] = t.new]
  /\ ret' = [NoRet EXCEPT !.op = "to_TP_zs", !.self = id]
  /\ nops' = nops + 1
  /\ UNCHANGED <<EOSLiquid_source, imported, new, fits, solve>>

\* other = obj.to_zs_TPV(zs, T, P, V) on EOSGas / EOSLiquid
TransformTPV(id, p, Targ, Parg, Varg, solved) ==
  /\ imported
  /\ nops < MaxOps
  /\ phases[id] # NoPhase
  /\ phases[id].kind \in EOSKinds
  /\ \E t \in {EOSGas_to_zs_TPV(phases[id], p.zs, Targ, Parg, Varg, solved)} :
        /\ phases' = IF t.err = "" THEN [phases EXCEPT ![3 - id] = t.s] ELSE phases
        /\ ret' = [NoRet EXCEPT !.op = "to_zs_TPV", !.self = id, !.err = t.err,
                                !.given = Len(Targ) + Len(Parg) + Len(Varg)]
  /\ nops' = nops + 1
  /\ UNCHANGED <<EOSLiquid_source, imported, new, fits, solve>>

Next ==
  \/ ImportModule
  \/ ConstructIdealGas
  \/ ConstructEOS
  \/ ConstructGibbsExcess
  \/ ConstructGibbsExcessSolid
  \/ \E id \in PhaseIds, acc \in BulkAccessors \cup IdealAccessors : Call(id, acc, NoExt)
  \/ \E id \in PhaseIds, acc \in SolverAccessors, ext \in SolverOutcomes \cup {NoExt} :
       Call(id, acc, ext)
  \/ \E id \in PhaseIds, acc \in EOSPrimitives \cup EOSPrimitiveLists \cup {"dS_dT", "dS_dP", "Z", "Cv", "log_zs"},
        ext \in {NoExt} : Call(id, acc, ext)
  \/ \E id \in PhaseIds, acc \in {"Psats", "dPsats_dT", "Vms_sat", "Hvaps"} :
       Call(id, acc, NoExt)
  \/ \E id \in PhaseIds, p \in StatePoints, same_zs \in BOOLEAN, roots \in Roots :
       Transform(id, p, same_zs, roots)
  \/ \E id \in PhaseIds, p \in StatePoints, Targ \in Optional({MaxT}),
        Parg \in Optional({MaxP}), Varg \in Optional({1}), roots \in {{"g"}, {"l"}} :
       TransformTPV(id, p, Targ, Parg, Varg, [T |-> 1, P |-> 1, roots |-> roots])

Spec == Init /\ [][Next]_vars

----------------------------------------------------------------------------
(* An IdealGas object and the snapshots derived from it                    *)

\* compositions: a pure component, a mixture, one with a non-positive entry
Compositions ==
  {pure_zs(N, 1), [i \in 1..N |-> MaxZ], [i \in 1..N |-> IF i = N THEN MaxZ ELSE 0 - i]}
IdealGasPoints == {[T |-> t, P |-> MaxP, zs |-> z] : t \in {1, MaxT}, z \in Compositions}

\* after import and obj = IdealGas(HeatCapacityGases=[...])
InitIdealGas ==
  /\ EOSLiquid_source = exec_build_EOSLiquid
  /\ imported = TRUE
  /\ \E locked \in BOOLEAN :
       phases = [id \in PhaseIds |->
                  IF id = 1 THEN IdealGas__init__([i \in 1..N |-> locked]) ELSE NoPhase]
  /\ new = NoPhase
  /\ ret = [NoRet EXCEPT !.op = "construct", !.self = 1]
  /\ nops = 0
  /\ fits = [i \in 1..N |-> best_fit(i, 20)]
  /\ solve = NoSolve

NextIdealGas ==
  \/ \E id \in PhaseIds, acc \in AccessorsOf("IdealGas") : Call(id, acc, NoExt)
  \/ \E id \in PhaseIds, p \in IdealGasPoints, same_zs \in BOOLEAN :
       Transform(id, p, same_zs, {"g"})

SpecIdealGas == InitIdealGas /\ [][NextIdealGas]_vars

----------------------------------------------------------------------------
(* The piecewise-fit evaluators over a range of fits and temperatures      *)

\* best-fit attributes of a locked object: the polynomial 2*T + c0 on
\* [Tmin, Tmax], with its values at both ends and the two extrapolation slopes
fit_object(Tmin, Tmax, Tmin_slope, Tmax_slope, c0) ==
  [Tmin |-> Tmin, Tmax |-> Tmax, Tmin_slope |-> Tmin_slope, Tmax_slope |-> Tmax_slope,
   Tmin_value |-> 2 * Tmin + c0, Tmax_value |-> 2 * Tmax + c0,
   coeffs |-> <<2, c0>>,
   int_coeffs |-> <<1, c0, 0>>,
   T_int_T_coeffs |-> <<2, 0>>,
   log_coeff |-> c0]

FitObjects ==
  {fit_object(Tmin, Tmax, lo, hi, 21) :
     Tmin \in 2..MaxT + 2, Tmax \in 2..MaxT + 2, lo \in {0, 2, 4}, hi \in {0, 2, 4}}
FitTemperatures == 1..MaxT + 3

\* after import, with the objects' fits chosen
InitCpFit ==
  /\ EOSLiquid_source = exec_build_EOSLiquid
  /\ imported = TRUE
  /\ phases = [id \in PhaseIds |-> NoPhase]
  /\ new = NoPhase
  /\ ret = NoRet
  /\ nops = 0
  /\ \E f \in FitObjects :
       /\ f.Tmin <= f.Tmax
       /\ fits = [i \in 1..N |-> IF i = 1 THEN f ELSE best_fit(i, 20)]
  /\ solve = NoSolve

\* obj = EOSGas(HeatCapacityGases=[...], T=T, ...) on locked objects, then
\* obj._Cp_pure_fast(obj.Cpgs_data), obj._Cp_integrals_pure_fast(obj.Cpgs_data)
\* and obj._Cp_integrals_over_T_pure_fast(obj.Cpgs_data)
EvaluateFit(T) ==
  /\ imported
  /\ \E o \in {EOSGas__init__("EOSGas", [i \in 1..N |-> TRUE],
                 <<[T |-> T, P |-> 1, zs |-> pure_zs(N, 1), roots |-> {"g"}]>>)},
        b \in {setup_Cpigs(fits)} :
       /\ phases' = [phases EXCEPT ![1] = o]
       /\ ret' = [NoRet EXCEPT !.op = "_Cp_fast", !.self = 1,
                    !.val = <<_Cp_pure_fast(o, b), _Cp_integrals_pure_fast(o, b),
                              _Cp_integrals_over_T_pure_fast(o, b)>>]
  /\ UNCHANGED <<EOSLiquid_source, imported, new, nops, fits, solve>>

NextCpFit == \E T \in FitTemperatures : EvaluateFit(T)

SpecCpFit == InitCpFit /\ [][NextCpFit]_vars

----------------------------------------------------------------------------
(* Phase.mechanical_critical_point, statement by statement, from two threads *)

\* thread t runs phases[t].mechanical_critical_point()
Solver(t) == phases[t]

\* two snapshots of a variant that inherits Phase.mechanical_critical_point
InitSolves ==
  /\ EOSLiquid_source = exec_build_EOSLiquid
  /\ imported = TRUE
  /\ \E locked \in BOOLEAN, ideal_gas \in BOOLEAN, p \in [PhaseIds -> StatePoints] :
       phases = [id \in PhaseIds |->
                  IF ideal_gas
                    THEN IdealGas_to_TP_zs(IdealGas__init__([i \in 1..N |-> locked]),
                                           p[id].T, p[id].P, p[id].zs)
                    ELSE GibbsExcessSolid__init__(locked, <<p[id]>>)]
  /\ new = NoPhase
  /\ ret = NoRet
  /\ nops = 0
  /\ fits = [i \in 1..N |-> best_fit(i, 20)]
  /\ solve = NoSolve

\* zs = self.zs and the initial guess (889-902): no Tcs, Pcs or eos_mix on
\* these variants, so the fixed guess is taken
SolveGuess(t) ==
  /\ solve.pc[t] = "idle"
  /\ solve' = [solve EXCEPT !.pc[t] = IF NoState(Solver(t), {"zs"}) THEN "raised"
                                      ELSE "to_solve"]
  /\ UNCHANGED <<EOSLiquid_source, imported, phases, new, ret, nops, fits>>

\* to_solve, first statement (907-908): new = self.to_TP_zs(T=T, P=P, zs=zs)
SolveTrial(t) ==
  /\ solve.pc[t] = "to_solve"
  /\ new' = to_TP_zs(Solver(t), Tmc_guess, Pmc_guess, Solver(t).zs, TRUE, NoExt).new
  /\ solve' = [solve EXCEPT !.pc[t] = "residual", !.owner = t]
  /\ UNCHANGED <<EOSLiquid_source, imported, phases, ret, nops, fits>>

\* to_solve, second statement (909): errs = [new.dP_drho(), new.d2P_drho2()]
\* on whatever object the global `new` holds now; dP_drho (518-520) calls V()
\* and dP_dV(), and fails on these variants
SolveResidual(t) ==
  /\ solve.pc[t] = "residual"
  /\ \E v \in {V(new)} :
       \E d \in {IF v.err # "" THEN v ELSE dP_dV(v.s)} :
          /\ new' = d.s
          /\ ret' = [NoRet EXCEPT !.op = "call", !.self = t,
                                  !.acc = "mechanical_critical_point",
                                  !.err = d.err, !.calls = v.calls + d.calls]
  /\ solve' = [solve EXCEPT !.pc[t] = "raised", !.read[t] = solve.owner]
  /\ UNCHANGED <<EOSLiquid_source, imported, phases, nops, fits>>

NextSolves ==
  \/ \E t \in PhaseIds : SolveGuess(t)
  \/ \E t \in PhaseIds : SolveTrial(t)
  \/ \E t \in PhaseIds : SolveResidual(t)

SpecSolves == InitSolves /\ [][NextSolves]_vars

----------------------------------------------------------------------------
(* A GibbsExcessLiquid object and the snapshots derived from it            *)

\* after import and obj = GibbsExcessLiquid(..., T=T, P=P, zs=zs)
InitLiquid ==
  /\ EOSLiquid_source = exec_build_EOSLiquid
  /\ imported = TRUE
  /\ \E locked \in BOOLEAN, ideal \in BOOLEAN, p \in StatePoints :
       phases = [id \in PhaseIds |->
                  IF id = 1
                    THEN GibbsExcessLiquid__init__("GibbsExcessLiquid", locked,
                           GE_object(ideal, p.T, p.zs, 1), FALSE, FALSE, TRUE, <<p>>)
                    ELSE NoPhase]
  /\ new = NoPhase
  /\ ret = [NoRet EXCEPT !.op = "construct", !.self = 1]
  /\ nops = 0
  /\ fits = [i \in 1..N |-> best_fit(i, 20)]
  /\ solve = NoSolve

NextLiquid ==
  \/ \E id \in PhaseIds, acc \in AccessorsOf("GibbsExcessLiquid") \ PureListAccessors :
       Call(id, acc, NoExt)
  \/ \E id \in PhaseIds, p \in StatePoints, same_zs \in BOOLEAN :
       Transform(id, p, same_zs, {"g"})

SpecLiquid == InitLiquid /\ [][NextLiquid]_vars

----------------------------------------------------------------------------
(* Snapshots of every variant: accessor calls and state transforms         *)

\* accessors that leave a value in the cache of the object
MemoAccessors == {"H", "S", "Cp", "V", "Psats", "log_zs", "H_ideal_gas"}

\* an object of each variant that holds a state (T, P, zs)
Snapshots ==
  {IdealGas_to_TP_zs(IdealGas__init__([i \in 1..N |-> locked]), p.T, p.P, p.zs) :
     locked \in BOOLEAN, p \in StatePoints}
  \cup {EOSGas__init__(kind, [i \in 1..N |-> TRUE],
                       <<[T |-> p.T, P |-> p.P, zs |-> p.zs, roots |-> roots]>>) :
          kind \in EOSKinds, p \in StatePoints, roots \in {{"g"}, {"l"}}}
  \cup {GibbsExcessLiquid__init__("GibbsExcessLiquid", locked,
                                  GE_object(TRUE, p.T, p.zs, 1), FALSE, FALSE, TRUE, <<p>>) :
          locked \in BOOLEAN, p \in StatePoints}
  \cup {GibbsExcessSolid__init__(locked, <<p>>) : locked \in BOOLEAN, p \in StatePoints}

InitSnapshots ==
  /\ EOSLiquid_source = exec_build_EOSLiquid
  /\ imported = TRUE
  /\ \E o \in Snapshots : phases = [id \in PhaseIds |-> IF id = 1 THEN o ELSE NoPhase]
  /\ new = NoPhase
  /\ ret = [NoRet EXCEPT !.op = "construct", !.self = 1]
  /\ nops = 0
  /\ fits = [i \in 1..N |-> best_fit(i, 20)]
  /\ solve = NoSolve

NextSnapshots ==
  \/ \E id \in PhaseIds, acc \in MemoAccessors : Call(id, acc, NoExt)
  \/ \E id \in PhaseIds, p \in StatePoints, same_zs \in BOOLEAN :
       Transform(id, p, same_zs, {"g"})
  \/ \E id \in PhaseIds, p \in StatePoints, Targ \in Optional({MaxT}),
        Parg \in Optional({MaxP}), Varg \in Optional({1}), roots \in {{"g"}, {"l"}} :
       TransformTPV(id, p, Targ, Parg, Varg, [T |-> 1, P |-> 1, roots |-> roots])

SpecSnapshots == InitSnapshots /\ [][NextSnapshots]_vars

----------------------------------------------------------------------------
(* State transforms with compositions of any length                        *)

\* state points whose zs has N entries, and one whose zs has N - 1
TransformPoints ==
  StatePoints \cup {[T |-> t, P |-> MaxP, zs |-> pure_zs(N - 1, 1)] : t \in 1..MaxT}

\* what the eos solver does with a composition of another length is outside
\* this module: EOS objects get compositions of N entries only
NextTransforms ==
  \/ \E id \in PhaseIds, p \in TransformPoints, same_zs \in BOOLEAN :
       /\ phases[id] # NoPhase
       /\ (phases[id].kind \in EOSKinds) => Len(p.zs) = N
       /\ Transform(id, p, same_zs, {"g"})
  \/ \E id \in PhaseIds, p \in StatePoints, Targ \in Optional({MaxT}),
        Parg \in Optional({MaxP}), Varg \in Optional({1}), roots \in {{"g"}, {"l"}} :
       TransformTPV(id, p, Targ, Parg, Varg, [T |-> 1, P |-> 1, roots |-> roots])

SpecTransforms == InitSnapshots /\ [][NextTransforms]_vars

----------------------------------------------------------------------------
(* GibbsExcessLiquid.Psats and its derivatives over the correlation objects *)

\* after obj = GibbsExcessLiquid(VaporPressures, ..., henry_components=hc,
\* T=T, P=P, zs=zs); bad: the object whose evaluation raises (0: none does)
InitPsats ==
  /\ EOSLiquid_source = exec_build_EOSLiquid
  /\ imported = TRUE
  /\ \E locked \in BOOLEAN, bad \in 0..N, hc \in [1..N -> BOOLEAN], p \in StatePoints :
       phases = [id \in PhaseIds |->
                  IF id = 1
                    THEN [GibbsExcessLiquid__init__("GibbsExcessLiquid", locked,
                            GE_object(TRUE, p.T, p.zs, 1), FALSE, FALSE, TRUE, <<p>>)
                          EXCEPT !.ge.VaporPressures =
                                    [i \in 1..N |-> [VaporPressure(locked) EXCEPT
                                                       !.raises = (i = bad)]],
                                 !.ge.henry_components = hc]
                    ELSE NoPhase]
  /\ new = NoPhase
  /\ ret = [NoRet EXCEPT !.op = "construct", !.self = 1]
  /\ nops = 0
  /\ fits = [i \in 1..N |-> best_fit(i, 20)]
  /\ solve = NoSolve

NextPsats ==
  \/ \E id \in PhaseIds, acc \in {"Psats", "dPsats_dT", "d2Psats_dT2"} : Call(id, acc, NoExt)
  \/ \E id \in PhaseIds, p \in StatePoints, same_zs \in BOOLEAN :
       Transform(id, p, same_zs, {"g"})

SpecPsats == InitPsats /\ [][NextPsats]_vars

----------------------------------------------------------------------------
(* Phase.mechanical_critical_point under any order of solver evaluations   *)

\* the (T, P) points the solver may hold or probe
CriticalPoints == {<<T, P>> : T \in 1..MaxT, P \in 1..MaxP}

\* an EOS object on which Phase.mechanical_critical_point(obj) is called: its
\* trial objects have V, dP_dV and d2P_dV2
InitCritical ==
  /\ EOSLiquid_source = exec_build_EOSLiquid
  /\ imported = TRUE
  /\ \E kind \in EOSKinds, p \in StatePoints, roots \in {{"g"}, {"l"}, {"g", "l"}} :
       phases = [id \in PhaseIds |->
                  IF id = 1
                    THEN EOSGas__init__(kind, [i \in 1..N |-> TRUE],
                           <<[T |-> p.T, P |-> p.P, zs |-> p.zs, roots |-> roots]>>)
                    ELSE NoPhase]
  /\ new = NoPhase
  /\ ret = [NoRet EXCEPT !.op = "construct", !.self = 1]
  /\ nops = 0
  /\ fits = [i \in 1..N |-> best_fit(i, 20)]
  /\ solve = NoSolve

\* to_solve(TP) (905-910): the trial object goes to the global `new`, then
\* errs = [new.dP_drho(), new.d2P_drho2()]; roots: what the eos solver finds;
\* iterate: the point newton_system holds as its iterate after the evaluation
to_solve(TP, roots, iterate) ==
  /\ nops < MaxOps
  /\ \E trial \in {to_TP_zs(Solver(1), TP[1], TP[2], Solver(1).zs, TRUE,
                            [NoExt EXCEPT !.roots = roots]).new} :
       \E v \in {V(trial)} :
         \E d \in {IF v.err # "" THEN v ELSE dP_dV(v.s)} :
           \E d2 \in {IF d.err # "" THEN d ELSE EOS_primitive(d.s, "d2P_dV2")} :
              /\ new' = d2.s
              /\ ret' = [NoRet EXCEPT !.op = "to_solve", !.self = 1, !.err = d2.err]
              /\ solve' = [solve EXCEPT !.pc[1] = IF d2.err # "" THEN "raised" ELSE "solving",
                                        !.owner = 1, !.x = iterate]
  /\ nops' = nops + 1
  /\ UNCHANGED <<EOSLiquid_source, imported, phases, fits>>

\* newton_system evaluates the residual at its first or next iterate x
CriticalResidual(x, roots) ==
  /\ solve.pc[1] \in {"idle", "solving"}
  /\ to_solve(x, roots, x)

\* jacobian(to_solve, TP) evaluates the residual at points around the iterate
CriticalJacobian(x, roots) ==
  /\ solve.pc[1] = "solving"
  /\ x # solve.x
  /\ to_solve(x, roots, solve.x)

\* newton_system returns its iterate (915-921): T, P = TP; V = new.V()
CriticalReturn ==
  /\ solve.pc[1] = "solving"
  /\ \E v \in {V(new)} :
       /\ new' = v.s
       /\ phases' = [phases EXCEPT ![1] =
                       IF v.err # "" THEN @
                       ELSE Put(Put(Put(@, "_mechanical_critical_T", solve.x[1]),
                                    "_mechanical_critical_P", solve.x[2]),
                                "_mechanical_critical_V", v.v)]
       /\ ret' = [NoRet EXCEPT !.op = "call", !.self = 1,
                               !.acc = "mechanical_critical_point", !.err = v.err,
                               !.val = <<solve.x[1], solve.x[2], v.v>>]
  /\ solve' = [solve EXCEPT !.pc[1] = "done"]
  /\ UNCHANGED <<EOSLiquid_source, imported, nops, fits>>

NextCritical ==
  \/ \E x \in CriticalPoints, roots \in {{"g"}, {"l"}} : CriticalResidual(x, roots)
  \/ \E x \in CriticalPoints, roots \in {{"g"}, {"l"}} : CriticalJacobian(x, roots)
  \/ CriticalReturn

SpecCritical == InitCritical /\ [][NextCritical]_vars

----------------------------------------------------------------------------
(* Reference-temperature and saturation-fugacity lists of GibbsExcessLiquid *)

RefAccessors ==
  {"H", "S", "Hvaps_T_ref", "Vms_sat_T_ref", "dVms_sat_dT_T_ref", "phis_sat",
   "dphis_sat_dT"}

\* after obj = GibbsExcessLiquid(..., HeatCapacityLiquids=..., use_phis_sat=...,
\* T=T, P=P, zs=zs); use_IG_Cp is false exactly when HeatCapacityLiquids are given
InitRefs ==
  /\ EOSLiquid_source = exec_build_EOSLiquid
  /\ imported = TRUE
  /\ \E locked \in BOOLEAN, HeatCapacityLiquids \in BOOLEAN, use_phis_sat \in BOOLEAN,
        p \in StatePoints :
       phases = [id \in PhaseIds |->
                  IF id = 1
                    THEN [GibbsExcessLiquid__init__("GibbsExcessLiquid", locked,
                            GE_object(TRUE, p.T, p.zs, 1), HeatCapacityLiquids, FALSE,
                            ~HeatCapacityLiquids, <<p>>)
                          EXCEPT !.ge.use_phis_sat = use_phis_sat]
                    ELSE NoPhase]
  /\ new = NoPhase
  /\ ret = [NoRet EXCEPT !.op = "construct", !.self = 1]
  /\ nops = 0
  /\ fits = [i \in 1..N |-> best_fit(i, 20)]
  /\ solve = NoSolve

NextRefs ==
  \/ \E id \in PhaseIds, acc \in RefAccessors : Call(id, acc, NoExt)
  \/ \E id \in PhaseIds, p \in StatePoints, same_zs \in BOOLEAN :
       Transform(id, p, same_zs, {"g"})

SpecRefs == InitRefs /\ [][NextRefs]_vars

----------------------------------------------------------------------------
(* Properties                                                              *)

Self == phases[ret.self]
Called == ret.op = "call"
Returned == Called /\ ret.err = ""

\* C1: calling an accessor again on the same snapshot, directly or after any
\* other accessor, returns the value the first call returned (in particular
\* GibbsExcessLiquid.S with a non-zero SE).
C1_RepeatedCallSameValue ==
  Returned =>
    /\ LET again == Accessor(Self, ret.acc, new, ret.ext).r
       IN again.err = "" /\ again.v = ret.val
    /\ \A other \in AccessorsOf(Self.kind) \ SolverAccessors :
         LET between == Accessor(Self, other, new, NoExt).r.s
             again == Accessor(between, ret.acc, new, ret.ext).r
         IN again.err = "" /\ again.v = ret.val

\* C2: once an accessor has returned, calling the same accessor again on the
\* snapshot performs no call on any correlation object.
C2_SecondCallNoEvaluation ==
  Returned => Accessor(Self, ret.acc, new, ret.ext).r.calls = 0

StateOf(o) ==
  IF o = NoPhase THEN <<>> ELSE <<o.T, o.P, o.zs, o.missing \cap {"T", "P", "zs"}, o.none>>

\* C4: no accessor call changes the T, P or zs of any snapshot.
C4_AccessorsKeepState ==
  [][ret'.op = "call" => \A id \in PhaseIds : StateOf(phases'[id]) = StateOf(phases[id])]_vars

C4_Witness ==
  /\ Returned
  /\ ret.acc = "mechanical_critical_point"
  /\ Cached(Self, "_mechanical_critical_T")
  /\ Has(Self, "T")
  /\ Get(Self, "_mechanical_critical_T") # Self.T

\* C5: to_zs_TPV raises ValueError exactly when the number of T, P, V given is
\* not two.
C5_TwoOfThreeRequired ==
  ret.op = "to_zs_TPV" => (ret.err = "ValueError" <=> ret.given # 2)

BranchAccessors ==
  {"V", "dP_dT", "dP_dV", "d2P_dT2", "d2P_dV2", "d2P_dTdV", "H_dep", "S_dep", "Cp_dep",
   "lnphis", "dlnphis_dT", "dlnphis_dP", "dH_dP"}

\* the quantity acc of root b of the snapshot's eos_mix
branch_quantity(s, acc, b) ==
  IF acc \in EOSPrimitiveLists
    THEN [i \in 1..Len(s.zs) |-> eos_value(s, acc, b) + i]
    ELSE eos_value(s, acc, b)

\* C6: every branch-selecting accessor of EOSGas returns the gas-branch
\* quantity when the gas root exists and the liquid-branch quantity otherwise.
C6_GasBranchFirst ==
  (Returned /\ ret.acc \in BranchAccessors /\ Self.kind = "EOSGas") =>
    ret.val = branch_quantity(Self, ret.acc,
                              IF "g" \in Self.eos_mix THEN "g" ELSE "l")

C6_Witness ==
  /\ Returned
  /\ ret.acc = "dlnphis_dT"
  /\ Self.kind = "EOSGas"
  /\ Self.eos_mix = {"l"}

\* C7: a branch-selecting accessor of EOSGas / EOSLiquid raises exactly when
\* the snapshot's eos_mix offers neither root.
C7_RaisesOnlyWithoutRoots ==
  (Called /\ ret.acc \in BranchAccessors /\ Self.kind \in EOSKinds) =>
    (ret.err # "" <=> (~Has(Self, "eos_mix") \/ Self.eos_mix = {}))

C7_Witness ==
  /\ Called
  /\ ret.acc \in BranchAccessors
  /\ Self.kind \in EOSKinds
  /\ Has(Self, "eos_mix")
  /\ Self.eos_mix = {}
  /\ ret.err = "AttributeError"

\* The places where a method of EOSGas names a branch: the text before the
\* branch token, the token, the text after it, for the try clause and for the
\* except clause.
BranchSites ==
  [to_TP_zs |-> << [pre |-> <<"e", "o", "s", "_", "m", "i", "x", ".", "t", "o", "_", "T", "P", "_", "z", "s", "_", "f", "a", "s", "t", "(", "o", "n", "l", "y", "_">>, br |-> <<"g">>, post |-> <<"=", "T", "r", "u", "e", ")">>],
        [pre |-> <<"e", "o", "s", "_", "c", "l", "a", "s", "s", "(", "T", "=", "T", ",", " ", "P", "=", "P", ",", " ", "z", "s", "=", "z", "s", ")">>, br |-> <<>>, post |-> <<>>] >>,
   lnphis |-> << [pre |-> <<"e", "o", "s", "_", "m", "i", "x", ".", "Z", "_">>, br |-> <<"g">>, post |-> <<>>],
        [pre |-> <<"e", "o", "s", "_", "m", "i", "x", ".", "Z", "_">>, br |-> <<"l">>, post |-> <<>>] >>,
   dlnphis_dT |-> << [pre |-> <<"e", "o", "s", "_", "m", "i", "x", ".", "d", "l", "n", "p", "h", "i", "s", "_", "d", "T", "(", "'">>, br |-> <<"g">>, post |-> <<"'", ")">>],
        [pre |-> <<"e", "o", "s", "_", "m", "i", "x", ".", "d", "l", "n", "p", "h", "i", "s", "_", "d", "T", "(", "'">>, br |-> <<"l">>, post |-> <<"'", ")">>] >>,
   dlnphis_dP |-> << [pre |-> <<"e", "o", "s", "_", "m", "i", "x", ".", "d", "l", "n", "p", "h", "i", "s", "_", "d", "P", "(", "'">>, br |-> <<"g">>, post |-> <<"'", ")">>],
        [pre |-> <<"e", "o", "s", "_", "m", "i", "x", ".", "d", "l", "n", "p", "h", "i", "s", "_", "d", "P", "(", "'">>, br |-> <<"l">>, post |-> <<"'", ")">>] >>,
   gammas |-> << [pre |-> <<"i", ".", "p", "h", "i", "_">>, br |-> <<"g">>, post |-> <<>>],
        [pre |-> <<"i", ".", "p", "h", "i", "_">>, br |-> <<"l">>, post |-> <<>>] >>,
   H_dep |-> << [pre |-> <<"e", "o", "s", "_", "m", "i", "x", ".", "H", "_", "d", "e", "p", "_">>, br |-> <<"g">>, post |-> <<>>],
        [pre |-> <<"e", "o", "s", "_", "m", "i", "x", ".", "H", "_", "d", "e", "p", "_">>, br |-> <<"l">>, post |-> <<>>] >>,
   S_dep |-> << [pre |-> <<"e", "o", "s", "_", "m", "i", "x", ".", "S", "_", "d", "e", "p", "_">>, br |-> <<"g">>, post |-> <<>>],
        [pre |-> <<"e", "o", "s", "_", "m", "i", "x", ".", "S", "_", "d", "e", "p", "_">>, br |-> <<"l">>, post |-> <<>>] >>,
   Cp_dep |-> << [pre |-> <<"e", "o", "s", "_", "m", "i", "x", ".", "C", "p", "_", "d", "e", "p", "_">>, br |-> <<"g">>, post |-> <<>>],
        [pre |-> <<"e", "o", "s", "_", "m", "i", "x", ".", "C", "p", "_", "d", "e", "p", "_">>, br |-> <<"l">>, post |-> <<>>] >>,
   V |-> << [pre |-> <<"e", "o", "s", "_", "m", "i", "x", ".", "V", "_">>, br |-> <<"g">>, post |-> <<>>],
        [pre |-> <<"e", "o", "s", "_", "m", "i", "x", ".", "V", "_">>, br |-> <<"l">>, post |-> <<>>] >>,
   dP_dT |-> << [pre |-> <<"e", "o", "s", "_", "m", "i", "x", ".", "d", "P", "_", "d", "T", "_">>, br |-> <<"g">>, post |-> <<>>],
        [pre |-> <<"e", "o", "s", "_", "m", "i", "x", ".", "d", "P", "_", "d", "T", "_">>, br |-> <<"l">>, post |-> <<>>] >>,
   dP_dV |-> << [pre |-> <<"e", "o", "s", "_", "m", "i", "x", ".", "d", "P", "_", "d", "V", "_">>, br |-> <<"g">>, post |-> <<>>],
        [pre |-> <<"e", "o", "s", "_", "m", "i", "x", ".", "d", "P", "_", "d", "V", "_">>, br |-> <<"l">>, post |-> <<>>] >>,
   d2P_dT2 |-> << [pre |-> <<"e", "o", "s", "_", "m", "i", "x", ".", "d", "2", "P", "_", "d", "T", "2", "_">>, br |-> <<"g">>, post |-> <<>>],
        [pre |-> <<"e", "o", "s", "_", "m", "i", "x", ".", "d", "2", "P", "_", "d", "T", "2", "_">>, br |-> <<"l">>, post |-> <<>>] >>,
   d2P_dV2 |-> << [pre |-> <<"e", "o", "s", "_", "m", "i", "x", ".", "d", "2", "P", "_", "d", "V", "2", "_">>, br |-> <<"g">>, post |-> <<>>],
        [pre |-> <<"e", "o", "s", "_", "m", "i", "x", ".", "d", "2", "P", "_", "d", "V", "2", "_">>, br |-> <<"l">>, post |-> <<>>] >>,
   d2P_dTdV |-> << [pre |-> <<"e", "o", "s", "_", "m", "i", "x", ".", "d", "2", "P", "_", "d", "T", "d", "V", "_">>, br |-> <<"g">>, post |-> <<>>],
        [pre |-> <<"e", "o", "s", "_", "m", "i", "x", ".", "d", "2", "P", "_", "d", "T", "d", "V", "_">>, br |-> <<"l">>, post |-> <<>>] >>,
   d2T_dV2 |-> << [pre |-> <<"e", "o", "s", "_", "m", "i", "x", ".", "d", "2", "T", "_", "d", "V", "2", "_">>, br |-> <<"g">>, post |-> <<>>],
        [pre |-> <<"e", "o", "s", "_", "m", "i", "x", ".", "d", "2", "T", "_", "d", "V", "2", "_">>, br |-> <<"l">>, post |-> <<>>] >>,
   d2V_dT2 |-> << [pre |-> <<"e", "o", "s", "_", "m", "i", "x", ".", "d", "2", "V", "_", "d", "T", "2", "_">>, br |-> <<"g">>, post |-> <<>>],
        [pre |-> <<"e", "o", "s", "_", "m", "i", "x", ".", "d", "2", "V", "_", "d", "T", "2", "_">>, br |-> <<"l">>, post |-> <<>>] >>,
   dH_dP |-> << [pre |-> <<"e", "o", "s", "_", "m", "i", "x", ".", "d", "H", "_", "d", "e", "p", "_", "d", "P", "_">>, br |-> <<"g">>, post |-> <<>>],
        [pre |-> <<"e", "o", "s", "_", "m", "i", "x", ".", "d", "H", "_", "d", "e", "p", "_", "d", "P", "_">>, br |-> <<"l">>, post |-> <<>>] >>,
   dH_dzs |-> << [pre |-> <<"e", "o", "s", "_", "m", "i", "x", ".", "d", "H", "_", "d", "e", "p", "_", "d", "z", "s", "(", "e", "o", "s", "_", "m", "i", "x", ".", "Z", "_">>, br |-> <<"g">>, post |-> <<")">>],
        [pre |-> <<"e", "o", "s", "_", "m", "i", "x", ".", "d", "H", "_", "d", "e", "p", "_", "d", "z", "s", "(", "e", "o", "s", "_", "m", "i", "x", ".", "Z", "_">>, br |-> <<"l">>, post |-> <<")">>] >>,
   dS_dT |-> << [pre |-> <<"e", "o", "s", "_", "m", "i", "x", ".", "d", "S", "_", "d", "e", "p", "_", "d", "T", "_">>, br |-> <<"g">>, post |-> <<>>],
        [pre |-> <<"e", "o", "s", "_", "m", "i", "x", ".", "d", "S", "_", "d", "e", "p", "_", "d", "T", "_">>, br |-> <<"l">>, post |-> <<>>] >>,
   dS_dP |-> << [pre |-> <<"e", "o", "s", "_", "m", "i", "x", ".", "d", "S", "_", "d", "e", "p", "_", "d", "P", "_">>, br |-> <<"g">>, post |-> <<>>],
        [pre |-> <<"e", "o", "s", "_", "m", "i", "x", ".", "d", "S", "_", "d", "e", "p", "_", "d", "P", "_">>, br |-> <<"l">>, post |-> <<>>] >>,
   dS_dzs |-> << [pre |-> <<"e", "o", "s", "_", "m", "i", "x", ".", "d", "S", "_", "d", "e", "p", "_", "d", "z", "s", "(", "e", "o", "s", "_", "m", "i", "x", ".", "Z", "_">>, br |-> <<"g">>, post |-> <<")">>],
        [pre |-> <<"e", "o", "s", "_", "m", "i", "x", ".", "d", "S", "_", "d", "e", "p", "_", "d", "z", "s", "(", "e", "o", "s", "_", "m", "i", "x", ".", "Z", "_">>, br |-> <<"l">>, post |-> <<")">>] >>,
   mechanical_critical_point |-> << [pre |-> <<"n", "e", "w", ".", "V", "_">>, br |-> <<"l">>, post |-> <<>>],
        [pre |-> <<"n", "e", "w", ".", "V", "_">>, br |-> <<"g">>, post |-> <<>>] >>,
   H |-> << [pre |-> <<"s", "e", "l", "f", ".", "H", "_", "d", "e", "p", "(", ")">>, br |-> <<>>, post |-> <<>>],
        [pre |-> <<"s", "e", "l", "f", ".", "_", "H">>, br |-> <<>>, post |-> <<>>] >>,
   S |-> << [pre |-> <<"s", "e", "l", "f", ".", "S", "_", "d", "e", "p", "(", ")">>, br |-> <<>>, post |-> <<>>],
        [pre |-> <<"s", "e", "l", "f", ".", "_", "S">>, br |-> <<>>, post |-> <<>>] >>,
   Cp |-> << [pre |-> <<"s", "e", "l", "f", ".", "C", "p", "_", "d", "e", "p", "(", ")">>, br |-> <<>>, post |-> <<>>],
        [pre |-> <<"s", "e", "l", "f", ".", "C", "p", "i", "g", "s", "_", "p", "u", "r", "e", "(", ")">>, br |-> <<>>, post |-> <<>>] >>,
   class_stmt |-> << [pre |-> <<"c", "l", "a", "s", "s", " ", "E", "O", "S">>, br |-> <<"G", "a", "s">>, post |-> <<"(", "P", "h", "a", "s", "e", ")", ":">>],
        [pre |-> <<"s", "e", "l", "f", ".", "_", "_", "c", "l", "a", "s", "s", "_", "_">>, br |-> <<>>, post |-> <<>>] >> ]

Render(site) == site.pre \o site.br \o site.post

\* the opposite branch token
Flip(br) ==
  IF br = <<"g">> THEN <<"l">>
  ELSE IF br = <<"l">> THEN <<"g">>
  ELSE IF br = <<"G", "a", "s">> THEN <<"L", "i", "q", "u", "i", "d">>
  ELSE br

Mirror(site) == site.pre \o Flip(site.br) \o site.post

\* C8: EOSLiquid has the methods of EOSGas, and each is the EOSGas method with
\* every branch token replaced by the opposite one and nothing else changed.
C8_EOSLiquidMirrorsEOSGas ==
  imported =>
    /\ DOMAIN EOSLiquid_source = DOMAIN EOSGas_source
    /\ DOMAIN BranchSites = DOMAIN EOSGas_source
    /\ \A m \in EOSMethods : \A k \in 1..2 :
         /\ EOSGas_source[m][k] = Render(BranchSites[m][k])
         /\ EOSLiquid_source[m][k] = Mirror(BranchSites[m][k])

C8_Witness ==
  /\ imported
  /\ EOSLiquid_source["dlnphis_dT"][1] = Mirror(BranchSites["dlnphis_dT"][1])
  /\ EOSLiquid_source["dlnphis_dT"][1] # EOSGas_source["dlnphis_dT"][1]

\* the object holds a complete state
HasState(o) == o # NoPhase /\ ~NoState(o, {"T", "P", "zs"}) /\ o.none = {}

\* C9: on a GibbsExcessLiquid snapshot, in every mode, H = H_dep + H_ideal_gas,
\* S = S_dep + S_ideal_gas and Cp = Cp_dep + Cp_ideal_gas.
C9_DepartureClosure ==
  \A id \in PhaseIds :
    (HasState(phases[id]) /\ phases[id].kind = "GibbsExcessLiquid") =>
      LET closes(bulk, dep, ideal) ==
            LET b == Accessor(phases[id], bulk, new, NoExt).r
                d == Accessor(b.s, dep, new, NoExt).r
                i == Accessor(d.s, ideal, new, NoExt).r
            IN (b.err = "" /\ d.err = "" /\ i.err = "") => b.v = d.v + i.v
      IN /\ closes("H", "H_dep", "H_ideal_gas")
         /\ closes("S", "S_dep", "S_ideal_gas")
         /\ closes("Cp", "Cp_dep", "Cp_ideal_gas")

\* C10: on every variant with a valid state, G, U and A return values with
\* G = H - T*S, U = H - P*V and A = U - T*S, whichever accessor is called first.
C10_EnergyConsistency ==
  \A id \in PhaseIds :
    LET o == phases[id]
    IN (HasState(o) /\ (o.kind \in EOSKinds => o.eos_mix # {})) =>
         \A first \in {"G", "U", "A", "H", "S", "V"} :
           LET o1 == Accessor(o, first, new, NoExt).r.s
               g == Accessor(o1, "G", new, NoExt).r
               u == Accessor(g.s, "U", new, NoExt).r
               a == Accessor(u.s, "A", new, NoExt).r
               h == Accessor(a.s, "H", new, NoExt).r
               e == Accessor(h.s, "S", new, NoExt).r
               v == Accessor(e.s, "V", new, NoExt).r
           IN /\ g.err = "" /\ u.err = "" /\ a.err = ""
              /\ h.err = "" /\ e.err = "" /\ v.err = ""
              /\ g.v = h.v - o.T * e.v
              /\ u.v = h.v - o.P * v.v
              /\ a.v = u.v - o.T * e.v

IdealGasSnapshot(o) == o # NoPhase /\ o.kind = "IdealGas" /\ ~NoState(o, {"T", "P", "zs", "N"})
Derived == phases[3 - ret.self]

\* C11: an IdealGas snapshot obtained by to_TP_zs returns V() = R*T/P, zero
\* H_dep() and S_dep(), N zeros from lnphis(), dlnphis_dT(), dlnphis_dP(), and
\* none of V(), H(), S(), Cp(), Cv(), Z() raises for a missing method.
C11_IdealGasPrimitives ==
  (ret.op = "to_TP_zs" /\ IdealGasSnapshot(Derived)) =>
    /\ LET v == Accessor(Derived, "V", new, NoExt).r
       IN v.err = "" /\ v.v = (R * Derived.T) \div Derived.P
    /\ \A acc \in {"H_dep", "S_dep"} :
         LET d == Accessor(Derived, acc, new, NoExt).r IN d.err = "" /\ d.v = 0
    /\ \A acc \in EOSPrimitiveLists :
         LET z == Accessor(Derived, acc, new, NoExt).r
         IN z.err = "" /\ z.v = [i \in 1..Derived.N |-> 0]
    /\ \A acc \in {"V", "H", "S", "Cp", "Cv", "Z"} :
         Accessor(Derived, acc, new, NoExt).r.err # "AttributeError"

\* C12: on an IdealGas snapshot of any composition gammas() returns N values
\* all 1, each the ratio of the snapshot's phi to the phi of a snapshot made
\* at the same T and P with the unit composition of component i, and the call
\* leaves the calling snapshot and every other object as they were.
C12_IdealGasGammasUnity ==
  [][(ret'.op = "call" /\ ret'.acc = "gammas" /\ IdealGasSnapshot(phases[ret'.self])) =>
       LET self == phases[ret'.self]
       IN /\ ret'.err = ""
          /\ ret'.val = [i \in 1..self.N |-> 1]
          /\ \A i \in 1..self.N :
               ret'.val[i] =
                 phis(self).v[i] \div
                   phis(IdealGas_to_TP_zs(self, self.T, self.P, pure_zs(self.N, i))).v[i]
          /\ phases' = phases
          /\ new' = new]_vars

C12_Witness ==
  /\ Returned
  /\ ret.acc = "gammas"
  /\ IdealGasSnapshot(Self)
  /\ \E i \in 1..Self.N : Self.zs[i] <= 0
  /\ ret.val = [i \in 1..Self.N |-> 1]

\* C13: log_zs() never raises on a snapshot: entry i is log(zs[i]) when
\* zs[i] > 0 and the floor constant when zs[i] <= 0, whatever the other
\* entries are; the list is cached; and S_ideal_gas() does not raise on a
\* snapshot whose composition has a non-positive entry.
C13_LogZsFloor ==
  (Called /\ IdealGasSnapshot(Self)) =>
    /\ ret.acc = "log_zs" =>
         /\ ret.err = ""
         /\ Len(ret.val) = Len(Self.zs)
         /\ \A i \in 1..Len(Self.zs) :
              ret.val[i] = IF Self.zs[i] > 0 THEN log_z(Self.zs[i]) ELSE LOG_FLOOR
         /\ Cached(Self, "_log_zs") /\ Get(Self, "_log_zs") = ret.val
    /\ ret.acc = "S_ideal_gas" =>
         /\ ret.err = ""
         /\ Cached(Self, "_log_zs")

C13_Witness ==
  /\ Returned
  /\ ret.acc = "log_zs"
  /\ IdealGasSnapshot(Self)
  /\ \E i, j \in 1..Len(Self.zs) :
       Self.zs[i] <= 0 /\ Self.zs[j] > 0 /\ ret.val[i] = LOG_FLOOR /\ ret.val[j] = log_z(Self.zs[j])

\* C14: on every object built from correlation objects the ideal-gas Cp flag
\* is true exactly when every HeatCapacityGases object reports locked; a
\* snapshot derived by to_TP_zs or to_zs_TPV carries the flag and the objects
\* of the object it was derived from; no accessor call changes the flag.
C14_LockedFlagFromObjects ==
  /\ \A id \in PhaseIds :
       phases[id] # NoPhase =>
         phases[id].Cpgs_locked = all_locked(phases[id].HeatCapacityGases)
  /\ (ret.op \in {"to_TP_zs", "to_zs_TPV"} /\ ret.err = "") =>
       /\ Derived.Cpgs_locked = Self.Cpgs_locked
       /\ Derived.HeatCapacityGases = Self.HeatCapacityGases
  /\ Called =>
       Self.Cpgs_locked = Accessor(Self, ret.acc, new, ret.ext).r.s.Cpgs_locked

\* C15: on a snapshot whose ideal-gas Cp group is locked no accessor calls a
\* HeatCapacityGases object; on an unlocked snapshot the ideal-gas Cp values
\* are the ones the objects return, not the table's.
C15_ExclusiveRouting ==
  (Called /\ Self.kind \in EOSKinds) =>
    /\ Self.Cpgs_locked => ret.calls = 0
    /\ (~Self.Cpgs_locked /\ ret.err = "" /\ ret.acc = "Cpigs_pure") =>
         ret.val = [i \in 1..Len(Self.HeatCapacityGases) |->
                      Cpg_T_dependent_property(i, Self.T)]

Evaluated == ret.op = "_Cp_fast"

\* C16: for each component and every T, _Cp_pure_fast returns the low
\* extrapolation when T < Tmin, the high extrapolation when T > Tmax and the
\* Horner value of the polynomial otherwise, and the integral and the
\* integral-over-T evaluators take the same one of the three branches,
\* T = Tmin and T = Tmax included.
C16_SameRegion ==
  Evaluated =>
    \A i \in 1..N :
      LET T == Self.T
          o == fits[i]
          b == setup_Cpigs(fits)
          region == Cp_region(T, o.Tmin, o.Tmax)
      IN /\ ret.val[1][i] =
              (IF T < o.Tmin THEN (T - o.Tmin) * o.Tmin_slope + o.Tmin_value
               ELSE IF T > o.Tmax THEN (T - o.Tmax) * o.Tmax_slope + o.Tmax_value
               ELSE Horner(o.coeffs, T))
         /\ Cp_integral_region(T, o.Tmin, o.Tmax) = region
         /\ Cp_integral_over_T_region(T, o.Tmin, o.Tmax) = region
         /\ ret.val[2][i] = Cp_integral_piece(b, i, T, region) - b[12][i]
         /\ ret.val[3][i] = Cp_integral_over_T_piece(b, i, T, region) - b[16][i]

C16_Witness ==
  /\ Evaluated
  /\ Self.T = fits[1].Tmax
  /\ fits[1].Tmin < fits[1].Tmax
  /\ fits[1].Tmax_slope # 2
  /\ ret.val[1][1] = Horner(fits[1].coeffs, Self.T)

\* C17: the integral is continuous at both breakpoints: with the offsets of
\* setup_Cpigs the low-temperature formula at T = Tmin equals the polynomial
\* formula there, and the polynomial formula at T = Tmax equals the
\* high-temperature formula there; so does the value returned at T = Tmin and
\* at T = Tmax.
C17_IntegralContinuous ==
  Evaluated =>
    \A i \in 1..N :
      LET o == fits[i]
          b == setup_Cpigs(fits)
      IN /\ Cp_integral_piece(b, i, o.Tmin, "below") = Cp_integral_piece(b, i, o.Tmin, "inside")
         /\ Cp_integral_piece(b, i, o.Tmax, "inside") = Cp_integral_piece(b, i, o.Tmax, "above")
         /\ Self.T = o.Tmin =>
              ret.val[2][i] + b[12][i] =
                o.Tmin * ((o.Tmin_slope * o.Tmin) \div 2
                          + (o.Tmin_value - o.Tmin_slope * o.Tmin))
         /\ Self.T = o.Tmax =>
              ret.val[2][i] = Cp_integral_piece(b, i, o.Tmax, "above") - b[12][i]

C17_Witness ==
  /\ Evaluated
  /\ Self.T = fits[1].Tmin
  /\ fits[1].Tmin < fits[1].Tmax
  /\ fits[1].Tmin_slope # 2
  /\ low_integral(fits[1]) # 0

\* C19: two mechanical_critical_point calls whose statements interleave share
\* no mutable state: the trial object a call's residual evaluation reads is
\* the one that call created.
C19_SolvesShareNothing ==
  \A t \in PhaseIds : solve.read[t] # 0 => solve.read[t] = t

\* C20: two distinct snapshots share no memoized result: whatever an accessor
\* call memoizes on one object, the other objects stay exactly as they were,
\* also when one was derived from the other at the same T with the same zs.
C20_NoSharedMemo ==
  [][ret'.op = "call" => phases'[3 - ret'.self] = phases[3 - ret'.self]]_vars

\* C21: the object a state transform returns holds no memoized value: every
\* cache field is unset, for every variant, also when the new T is the
\* receiver's T and the receiver has values cached.
C21_TransformStartsEmpty ==
  (ret.op \in {"to_TP_zs", "to_zs_TPV"} /\ ret.err = "")
    => phases[3 - ret.self].cache = EmptyCache

C21_Witness ==
  /\ ret.op = "to_TP_zs"
  /\ Self.kind \in GEKinds
  /\ Cached(Self, "_Psats")
  /\ phases[3 - ret.self].T = Self.T

\* C22: the object a state transform returns has N and cmps, and N is the
\* length of its zs (cmps being the index range of N), whatever zs was passed.
C22_TransformedSizes ==
  (ret.op \in {"to_TP_zs", "to_zs_TPV"} /\ ret.err = "")
    => /\ Has(phases[3 - ret.self], "N")
       /\ Has(phases[3 - ret.self], "cmps")
       /\ phases[3 - ret.self].N = Len(phases[3 - ret.self].zs)

\* C23: an accessor call changes no attribute of any correlation object the
\* snapshot holds: the VaporPressures objects (their selected method
\* included) are after the call what they were before it.
C23_CorrelationObjectsUntouched ==
  [][ret'.op = "call" =>
       phases'[ret'.self].ge.VaporPressures = phases[ret'.self].ge.VaporPressures]_vars

\* the cache field of a per-component list accessor
ListField(acc) == IF acc = "Psats" THEN "_Psats" ELSE "_dPsats_dT"

\* C24: when Psats() or dPsats_dT() raises, the cache field of that property
\* is left unset, and a call that returns gives a list of N entries.
C24_FailureAtomicity ==
  (ret.op = "call" /\ ret.acc \in {"Psats", "dPsats_dT"})
    => /\ ret.err # "" => ~Cached(Self, ListField(ret.acc))
       /\ ret.err = "" => Len(ret.val) = Self.N

\* C25: the V that mechanical_critical_point returns is the volume of the
\* trial object built at the returned (T, P), in whatever order the solver
\* evaluated the residual at its iterates and around them.
C25_VolumeAtReturnedPoint ==
  (ret.op = "call" /\ ret.acc = "mechanical_critical_point" /\ ret.err = ""
     /\ solve.pc[1] = "done")
    => (new.T = ret.val[1] /\ new.P = ret.val[2])

\* C26: Psats() on the locked path gives what the generic path gives; when the
\* object has Henry components, the entry of each such component is its
\* Henry's-law value whether or not Psats_locked is set.
C26_HenryOnBothPaths ==
  (ret.op = "call" /\ ret.acc = "Psats" /\ ret.err = "" /\ has_henry_components(Self)
     /\ henry_solvents(Self) # {} /\ henry_weight_sum(Self) # 0
     /\ Len(ret.val) = Self.N)
    => \A i \in cmps(Self) :
         Self.ge.henry_components[i] => ret.val[i] = Henry_Psat(Self, i)

\* C27: on the locked path d2Psats_dT2() takes, for each component, the same
\* piece of the fit as Psats() and dPsats_dT(): the polynomial piece in one
\* exactly when in the others, also at T == Tmin[i] and T == Tmax[i].
C27_SameRegionInDerivatives ==
  (ret.op = "call" /\ ret.acc = "d2Psats_dT2" /\ ret.err = "" /\ Self.ge.Psats_locked)
    => \A i \in cmps(Self) :
         (Psats_region(Self.T, Psats_data[1][i], Psats_data[4][i]) = "inside")
           <=> (d2Psats_dT2_region(Self.T, Psats_data[1][i], Psats_data[4][i]) = "inside")

\* C28: on an object built with HeatCapacityLiquids, fresh from the constructor
\* or derived by to_TP_zs, Hvaps_T_ref() is callable and returns the enthalpy
\* of vaporization of each component at T_REF_IG, and H() and S() in the mode
\* P_DEPENDENT_H_LIQ with use_IG_Cp false do not fail on calling it.
C28_Hvaps_T_ref_FreshAsDerived ==
  (ret.op = "call" /\ Self.ge.HeatCapacityLiquids /\ ~Self.ge.use_IG_Cp
     /\ Self.ge.P_DEPENDENT_H_LIQ)
    => /\ ret.acc = "Hvaps_T_ref"
            => /\ ret.err = ""
               /\ ret.val = [i \in 1..Self.N |-> Hvap_generic(i, T_REF_IG)]
       /\ ret.acc \in {"H", "S"} => ret.err # "TypeError"

\* C29: dVms_sat_dT_T_ref() returns N values without raising, on the locked
\* path and on the generic path, and the values are those at T_REF_IG
\* whatever the T of the snapshot.
C29_dVms_sat_dT_T_ref_BothPaths ==
  (ret.op = "call" /\ ret.acc = "dVms_sat_dT_T_ref")
    => /\ ret.err = ""
       /\ Len(ret.val) = Self.N
       /\ ~Self.ge.Vms_sat_locked
            => ret.val = [i \in 1..Self.N |-> dVm_sat_dT_generic(i, T_REF_IG)]

\* C30: dphis_sat_dT() on a snapshot that has no cached value does not raise:
\* it returns a list, N zeros when the saturation-fugacity correction is off,
\* and leaves it in the cache.
C30_dphis_sat_dT_FirstCall ==
  (ret.op = "call" /\ ret.acc = "dphis_sat_dT")
    => /\ ret.err = ""
       /\ Cached(Self, "_dphis_sat_dT")
       /\ ~Self.ge.use_phis_sat => ret.val = [i \in 1..Self.N |-> 0]
====
